---- MODULE Spec2Model ----
(***************************************************************************)
(* Model of the Neural Graph Memory of BDB-SQUAD                           *)
(* (src/gengen/src/core/ngm/graph_memory.py): the node table, the          *)
(* relationship graph, the vector index and the position-to-id mapping,    *)
(* under add_memory (with the eviction it triggers), retrieve,             *)
(* get_context_window, save, load and get_statistics.                      *)
(*                                                                         *)
(* Conventions.                                                            *)
(*  - importance, emotional valence and edge strengths are in tenths       *)
(*    (importance 0.5 is 5, strength 0.8 is 8);                            *)
(*  - similarities and retrieval scores are in thousandths;                *)
(*  - the wall clock counts whole days: two reads of datetime.now() are    *)
(*    either the same instant or whole days apart, so (now - ts).days is   *)
(*    the difference of the two values;                                    *)
(*  - a node id f"mem_{n}_{t}" is the pair <<n, t>>;                       *)
(*  - a numpy array is [shape, data]: shape is the tuple of its            *)
(*    dimensions, data its elements in row-major order;                    *)
(*  - the index is faiss.IndexFlatL2 (index_type "Flat"), the exact        *)
(*    index: add appends, search returns the k nearest positions in        *)
(*    ascending squared distance (equal distances in position order) and   *)
(*    pads with -1 when it holds fewer than k vectors;                     *)
(*  - datetime.now() is read once per call, and time passes only between   *)
(*    calls;                                                               *)
(*  - a file path is the tuple of its name and suffixes ("a" is <<"a">>,   *)
(*    "a.faiss" is <<"a", ".faiss">>), and the files outlive the instance. *)
(***************************************************************************)
EXTENDS Integers, Sequences, FiniteSets, TLC

VARIABLES
    nodes,             \* self.nodes: the dict as the sequence of its values, in insertion order
    graph_nodes,       \* the node set of self.graph
    graph_edges,       \* the edges of self.graph (a DiGraph), in insertion order
    index,             \* self.index: [d, vectors]
    index_to_node_id,  \* self.index_to_node_id
    embedding_dim,     \* self.embedding_dim
    memory_capacity,   \* self.memory_capacity
    decay_rate,        \* self.decay_rate, the fraction [num, den]
    clock,             \* the value datetime.now() returns
    ret,               \* what the last call returned or raised
    files,             \* the files on disk: path -> content
    threads,           \* the calls in progress in the threads of the process
    orch,              \* a delegate_and_execute call of the OrchestratorAgent
    jobs               \* a DistributedJobManager and its worker thread

vars == <<nodes, graph_nodes, graph_edges, index, index_to_node_id,
          embedding_dim, memory_capacity, decay_rate, clock, ret, files, threads, orch, jobs>>

----------------------------------------------------------------------------
(* Bounds of the model. *)

MaxNodes == 3        \* add_memory calls that reach the store, in Spec and SpecRetrieve
MaxClock == 3        \* no call is made after this clock value
MaxAccess == 2       \* retrieve calls stop once the access counts add up to more than this
MaxTopK == 2         \* the largest top_k retrieve is called with in SpecRetrieve
MaxInserts == 12     \* add_memory calls in SpecEvict
MaxWindow == 4       \* the largest window_size get_context_window is called with

----------------------------------------------------------------------------
(* Generic helpers: Python's dict, list and sort. *)

Min(a, b) == IF a <= b THEN a ELSE b

Range(s) == {s[i] : i \in DOMAIN s}

RECURSIVE Pow(_, _)
Pow(b, e) == IF e = 0 THEN 1 ELSE b * Pow(b, e - 1)

\* list.sort(key=...) / sorted(...): stable, ascending when Before is "<",
\* and with reverse=True (Before is ">") still keeping equal elements in
\* their original order.
StableSort(s, Before(_, _)) ==
    LET n    == Len(s)
        t    == s \o <<>>
        rank == [i \in 1..n |->
                    Cardinality({j \in 1..n :
                        Before(t[j], t[i]) \/ (~Before(t[i], t[j]) /\ j < i)}) + 1] \o <<>>
    IN  [r \in 1..n |-> t[CHOOSE i \in 1..n : rank[i] = r]] \o <<>>

\* s[a:b] of Python, a and b 0-based and b exclusive.
Slice(s, a, b) == SubSeq(s, a + 1, Min(b, Len(s)))

Keys(ns) == {ns[i].node_id : i \in DOMAIN ns}

Node(ns, id) == ns[CHOOSE i \in DOMAIN ns : ns[i].node_id = id]

\* self.nodes[node_id] = node: a new key goes last, an existing key keeps its place.
PutNode(ns, n) ==
    IF n.node_id \in Keys(ns)
    THEN [i \in DOMAIN ns |-> IF ns[i].node_id = n.node_id THEN n ELSE ns[i]]
    ELSE Append(ns, n)

\* del self.nodes[node_id]
DelNode(ns, id) == SelectSeq(ns, LAMBDA n : n.node_id # id)

----------------------------------------------------------------------------
(* networkx.DiGraph: one edge per ordered pair of nodes; add_edge on an    *)
(* existing pair replaces the edge's attributes and keeps its place.       *)

MemoryEdge(src, dst, type, strength) ==
    [source_id |-> src, target_id |-> dst, edge_type |-> type, strength |-> strength]

SamePair(e, f) == e.source_id = f.source_id /\ e.target_id = f.target_id

\* self.graph.add_edge(u, v, **edge.__dict__)
AddEdge(es, e) ==
    IF \E i \in DOMAIN es : SamePair(es[i], e)
    THEN [i \in DOMAIN es |-> IF SamePair(es[i], e) THEN e ELSE es[i]]
    ELSE Append(es, e)

RECURSIVE AddEdges(_, _)
AddEdges(es, new) ==
    IF new = <<>> THEN es ELSE AddEdges(AddEdge(es, Head(new)), Tail(new))

\* list(self.graph.predecessors(v)), list(self.graph.successors(v))
Predecessors(es, v) ==
    LET into == SelectSeq(es, LAMBDA e : e.target_id = v)
    IN  [i \in DOMAIN into |-> into[i].source_id]

Successors(es, v) ==
    LET from == SelectSeq(es, LAMBDA e : e.source_id = v)
    IN  [i \in DOMAIN from |-> from[i].target_id]

----------------------------------------------------------------------------
(* MemoryNode *)

NdArray(shape, data) == [shape |-> shape, data |-> data]

Ndim(a) == Len(a.shape)

MemoryNode(id, ts, embedding, modality, valence, importance) ==
    [node_id |-> id, timestamp |-> ts, embedding |-> embedding, modality |-> modality,
     emotional_valence |-> valence, importance |-> importance, access_count |-> 0]

\* MemoryNode.__post_init__: TRUE when it raises ValueError.
PostInitImportanceDropped(n) == Ndim(n.embedding) # 1

PostInitRaises(n) ==
    \/ Ndim(n.embedding) # 1
    \/ ~(0 <= n.importance /\ n.importance <= 10)

----------------------------------------------------------------------------
(* The vector index (faiss.IndexFlatL2). *)

\* index.add(x) asserts x.shape[1] == index.d; x is embedding.reshape(1, -1).
IndexAddRaises(ix, embedding) == Len(embedding.data) # ix.d

IndexAdd(ix, embedding) == [ix EXCEPT !.vectors = Append(@, embedding.data)]

RECURSIVE SquaredL2(_, _)
SquaredL2(x, y) ==
    IF x = <<>> THEN 0
    ELSE (Head(x) - Head(y)) * (Head(x) - Head(y)) + SquaredL2(Tail(x), Tail(y))

\* index.search(query, k): the pairs (distance, position), nearest first,
\* padded to k entries with position -1.
IndexSearch(ix, query, k) ==
    LET hits   == [i \in DOMAIN ix.vectors |->
                      [dist |-> SquaredL2(ix.vectors[i], query), idx |-> i - 1]]
        sorted == StableSort(hits, LAMBDA a, b : a.dist < b.dist)
    IN  [i \in 1..k |-> IF i <= Len(sorted) THEN sorted[i] ELSE [dist |-> 0, idx |-> -1]]

----------------------------------------------------------------------------
(* Eviction. *)

\* total_score of _prune_memories, in tenths times decay_rate.den^now.
TotalScore(n, now, rate) ==
    LET age_days == now - n.timestamp
    IN  n.importance * Pow(rate.num, age_days) * Pow(rate.den, now - age_days)
          + Min(n.access_count, 5) * Pow(rate.den, now)

\* _remove_node with a graph that keeps the edges of the node it loses.
RemoveNodeKeepingEdges(m, id) ==
    IF id \in Keys(m.nodes)
    THEN [nodes       |-> DelNode(m.nodes, id),
          graph_nodes |-> m.graph_nodes \ {id},
          graph_edges |-> m.graph_edges]
    ELSE m

\* _remove_node on the triple m = [nodes, graph_nodes, graph_edges]
RemoveNode(m, id) ==
    IF id \in Keys(m.nodes)
    THEN [nodes       |-> DelNode(m.nodes, id),
          graph_nodes |-> m.graph_nodes \ {id},
          graph_edges |-> SelectSeq(m.graph_edges,
                              LAMBDA e : e.source_id # id /\ e.target_id # id)]
    ELSE m

RECURSIVE RemoveNodes(_, _)
RemoveNodes(m, ids) ==
    IF ids = <<>> THEN m ELSE RemoveNodes(RemoveNode(m, Head(ids)), Tail(ids))

\* to_remove with the scores sorted in descending order.
ToRemoveHighest(ns, now, rate) ==
    LET scores == [i \in DOMAIN ns |->
                      [node_id |-> ns[i].node_id, total |-> TotalScore(ns[i], now, rate)]]
        sorted == StableSort(scores, LAMBDA a, b : a.total > b.total)
    IN  Slice(sorted, 0, Len(scores) \div 10)

\* The list to_remove of _prune_memories: the entries (node_id, total_score).
ToRemove(ns, now, rate) ==
    LET scores == [i \in DOMAIN ns |->
                      [node_id |-> ns[i].node_id, total |-> TotalScore(ns[i], now, rate)]]
        sorted == StableSort(scores, LAMBDA a, b : a.total < b.total)
    IN  Slice(sorted, 0, Len(scores) \div 10)

\* _prune_memories over every node but the one stored last.
PruneMemoriesSparingNewest(m, now, rate) ==
    LET to_remove == ToRemove(Slice(m.nodes, 0, Len(m.nodes) - 1), now, rate)
    IN  RemoveNodes(m, [i \in DOMAIN to_remove |-> to_remove[i].node_id])

\* _prune_memories
PruneMemories(m, now, rate) ==
    LET to_remove == ToRemove(m.nodes, now, rate)
    IN  RemoveNodes(m, [i \in DOMAIN to_remove |-> to_remove[i].node_id])

----------------------------------------------------------------------------
(* Edge creation at insert time. *)

\* The causal edges of add_memory: one per parent id that is in self.nodes.
CausalEdges(ns, parent_node_ids, node_id) ==
    LET live == SelectSeq(parent_node_ids, LAMBDA p : p \in Keys(ns))
    IN  [i \in DOMAIN live |-> MemoryEdge(live[i], node_id, "causal", 8)]

\* The temporal edges of _create_temporal_edges(node_id, lookback=5).
TemporalEdges(ns, node_id) ==
    IF Len(ns) <= 1 THEN <<>>
    ELSE LET sorted == StableSort(ns, LAMBDA a, b : a.timestamp > b.timestamp)
             recent == SelectSeq(Slice(sorted, 1, 5 + 1), LAMBDA n : n.node_id # node_id)
         IN  [i \in DOMAIN recent |-> MemoryEdge(recent[i].node_id, node_id, "temporal", 5)]

----------------------------------------------------------------------------
(* add_memory.  self is the record of the instance's fields; the result is *)
(* the instance after the call and what the call returned or raised.       *)

Self ==
    [nodes |-> nodes, graph_nodes |-> graph_nodes, graph_edges |-> graph_edges,
     index |-> index, index_to_node_id |-> index_to_node_id,
     embedding_dim |-> embedding_dim, memory_capacity |-> memory_capacity,
     decay_rate |-> decay_rate]

NoId == <<>>

\* What a call left behind: the operation and its arguments (of add_memory,
\* those that make the node), "ok" or the
\* exception raised, the node id returned (add_memory), the list of
\* (node id, score) returned (retrieve), and for an add_memory that ran
\* _prune_memories the node table and the clock value the pass started from
\* (pruned is FALSE otherwise); for a load, population is the node table the
\* instance held when load was called.
Returned(op, args, status, node_id, results, pruned, population, now) ==
    [op |-> op, args |-> args, status |-> status, node_id |-> node_id,
     results |-> results, pruned |-> pruned, population |-> population, now |-> now]

\* The store and the graph left as they were.
StoreAndGraphDeferred(self, node) == self

\* Lines 145-149: the node enters the store and the graph.
StoreAndGraph(self, node) ==
    [self EXCEPT !.nodes = PutNode(@, node),
                 !.graph_nodes = @ \cup {node.node_id}]

\* Lines 151-153: the embedding enters the index, its id the mapping.
IndexAndMapping(self, node) ==
    [self EXCEPT !.index = IndexAdd(@, node.embedding),
                 !.index_to_node_id = Append(@, node.node_id)]

\* Lines 155-168: causal edges, then temporal edges.
LinkEdges(self, node_id, parent_node_ids) ==
    LET causal == AddEdges(self.graph_edges,
                           CausalEdges(self.nodes, parent_node_ids, node_id))
    IN  [self EXCEPT !.graph_edges = AddEdges(causal, TemporalEdges(self.nodes, node_id))]

\* The capacity test with >= for >.
OverCapacityAtLimit(self) == Len(self.nodes) >= self.memory_capacity

\* Lines 170-172: TRUE when _prune_memories runs.
OverCapacity(self) == Len(self.nodes) > self.memory_capacity

Pruned(self, now) ==
    LET m == PruneMemories([nodes |-> self.nodes, graph_nodes |-> self.graph_nodes,
                            graph_edges |-> self.graph_edges], now, self.decay_rate)
    IN  [self EXCEPT !.nodes = m.nodes, !.graph_nodes = m.graph_nodes,
                     !.graph_edges = m.graph_edges]

AddMemoryCall(self, now, embedding, modality, valence, importance, parent_node_ids) ==
    LET node_id == <<Len(self.nodes), now>>
        node    == MemoryNode(node_id, now, embedding, modality, valence, importance)
        stored  == StoreAndGraph(self, node)
        indexed == IndexAndMapping(stored, node)
        linked  == LinkEdges(indexed, node_id, parent_node_ids)
        args    == [embedding |-> embedding, modality |-> modality,
                    emotional_valence |-> valence, importance |-> importance]
    IN  IF PostInitRaises(node)
        THEN [self |-> self,
              ret  |-> Returned("add_memory", args, "ValueError", NoId, <<>>,
                                FALSE, <<>>, now)]
        ELSE IF IndexAddRaises(stored.index, embedding)
        THEN [self |-> stored,
              ret  |-> Returned("add_memory", args, "AssertionError", NoId, <<>>,
                                FALSE, <<>>, now)]
        ELSE IF OverCapacity(linked)
        THEN [self |-> Pruned(linked, now),
              ret  |-> Returned("add_memory", args, "ok", node_id, <<>>,
                                TRUE, linked.nodes, now)]
        ELSE [self |-> linked,
              ret  |-> Returned("add_memory", args, "ok", node_id, <<>>,
                                FALSE, <<>>, now)]

Install(self) ==
    /\ nodes' = self.nodes
    /\ graph_nodes' = self.graph_nodes
    /\ graph_edges' = self.graph_edges
    /\ index' = self.index
    /\ index_to_node_id' = self.index_to_node_id
    /\ embedding_dim' = self.embedding_dim
    /\ memory_capacity' = self.memory_capacity
    /\ decay_rate' = self.decay_rate

----------------------------------------------------------------------------
(* retrieve *)

NoFilter == ""

\* similarity = 1.0 / (1.0 + dist), in thousandths.
Similarity(dist) == 1000 \div (1 + dist)

\* The sort key x[1] * 0.7 + x[0].importance * 0.3, in ten-thousandths.
CombinedScore(similarity, importance) == 7 * similarity + 3 * (importance * 100)

\* A neighbour score that is not attenuated.
NeighborScoreUnattenuated(score) == score

\* neighbor_score = score * 0.6
NeighborScore(score) == (score * 6) \div 10

\* index.search asserts query.shape[1] == index.d.
IndexSearchRaises(ix, query) == Len(query.data) # ix.d

\* The positions the index hands back, without the -1 padding (line 208).
Hits(self, query, top_k) ==
    SelectSeq(IndexSearch(self.index, query.data, Min(top_k * 3, Len(self.nodes))),
              LAMBDA h : h.idx # -1)

HitId(self, h) == self.index_to_node_id[h.idx + 1]

\* self.nodes[node_id] of line 212 raises KeyError for an id that is not a key.
LookupRaises(self, hits) ==
    \E i \in DOMAIN hits : HitId(self, hits[i]) \notin Keys(self.nodes)

\* Lines 214-218: TRUE when the candidate is kept.
PassesFilters(node, modality_filter, min_importance) ==
    /\ ~(modality_filter # NoFilter /\ node.modality # modality_filter)
    /\ ~(node.importance < min_importance)

\* Lines 206-222: the list candidates, as (node id, similarity).
Candidates(self, hits, modality_filter, min_importance) ==
    LET kept == SelectSeq(hits, LAMBDA h :
                    PassesFilters(Node(self.nodes, HitId(self, h)),
                                  modality_filter, min_importance))
    IN  [i \in DOMAIN kept |->
            [node_id |-> HitId(self, kept[i]), score |-> Similarity(kept[i].dist)]]

\* Lines 224-231: sort by combined score, descending, and take top_k.
Primary(self, candidates, top_k) ==
    Slice(StableSort(candidates, LAMBDA a, b :
              CombinedScore(a.score, Node(self.nodes, a.node_id).importance)
                > CombinedScore(b.score, Node(self.nodes, b.node_id).importance)),
          0, top_k)

\* Lines 235-245: the list neighbor_nodes.
RECURSIVE NeighborNodes(_, _)
NeighborNodes(self, results) ==
    IF results = <<>> THEN <<>>
    ELSE LET r   == Head(results)
             ids == Predecessors(self.graph_edges, r.node_id)
                      \o Successors(self.graph_edges, r.node_id)
         IN  [i \in DOMAIN ids |-> [node_id |-> ids[i], score |-> NeighborScore(r.score)]]
               \o NeighborNodes(self, Tail(results))

\* Lines 249-254: the first entry of each node id.
Unique(all_results) ==
    LET first == {i \in DOMAIN all_results :
                     \A j \in 1..(i - 1) : all_results[j].node_id # all_results[i].node_id}
        RECURSIVE Pick(_)
        Pick(i) == IF i > Len(all_results) THEN <<>>
                   ELSE IF i \in first THEN <<all_results[i]>> \o Pick(i + 1)
                   ELSE Pick(i + 1)
    IN  Pick(1)

\* Lines 233-256
WithNeighbors(self, results, top_k) ==
    Slice(StableSort(Unique(results \o NeighborNodes(self, results)),
                     LAMBDA a, b : a.score > b.score),
          0, top_k)

\* Lines 258-260: node.access_count += 1 for every entry of results.
Touch(ns, results) ==
    [i \in DOMAIN ns |->
        [ns[i] EXCEPT !.access_count =
            @ + Cardinality({j \in DOMAIN results : results[j].node_id = ns[i].node_id})]]

\* What retrieve returns or raises.
Retrieved(args, status, results) ==
    Returned("retrieve", args, status, NoId, results, FALSE, <<>>, 0)

\* Lines 224-256: the list results before the access counts are updated.
Results(self, candidates, top_k, include_neighbors) ==
    IF include_neighbors
    THEN WithNeighbors(self, Primary(self, candidates, top_k), top_k)
    ELSE Primary(self, candidates, top_k)

\* Lines 258-262
Finish(self, args, results) ==
    [self |-> [self EXCEPT !.nodes = Touch(@, results)],
     ret  |-> Retrieved(args, "ok", results)]

\* Lines 205-262, given what the index handed back.
Ranked(self, args, hits) ==
    IF LookupRaises(self, hits)
    THEN [self |-> self, ret |-> Retrieved(args, "KeyError", <<>>)]
    ELSE Finish(self, args,
                Results(self,
                        Candidates(self, hits, args.modality_filter, args.min_importance),
                        args.top_k, args.include_neighbors))

\* retrieve without the test of lines 198-199.
RetrieveCallUnguarded(self, query, top_k, modality_filter, min_importance, include_neighbors) ==
    LET args == [query_embedding |-> query, top_k |-> top_k,
                 modality_filter |-> modality_filter,
                 min_importance |-> min_importance,
                 include_neighbors |-> include_neighbors]
    IN  IF IndexSearchRaises(self.index, query)
        THEN [self |-> self, ret |-> Retrieved(args, "AssertionError", <<>>)]
        ELSE Ranked(self, args, Hits(self, query, top_k))

RetrieveCall(self, query, top_k, modality_filter, min_importance, include_neighbors) ==
    LET args == [query_embedding |-> query, top_k |-> top_k,
                 modality_filter |-> modality_filter,
                 min_importance |-> min_importance,
                 include_neighbors |-> include_neighbors]
    IN  IF Len(self.nodes) = 0
        THEN [self |-> self, ret |-> Retrieved(args, "ok", <<>>)]
        ELSE IF IndexSearchRaises(self.index, query)
        THEN [self |-> self, ret |-> Retrieved(args, "AssertionError", <<>>)]
        ELSE Ranked(self, args, Hits(self, query, top_k))

----------------------------------------------------------------------------
(* get_context_window *)

Max(a, b) == IF a >= b THEN a ELSE b

\* The 0-based position of the first node with that id (lines 345-348).
CurrentIdx(sorted_nodes, current_node_id) ==
    (CHOOSE i \in DOMAIN sorted_nodes :
        /\ sorted_nodes[i].node_id = current_node_id
        /\ \A j \in 1..(i - 1) : sorted_nodes[j].node_id # current_node_id) - 1

\* get_context_window with end_idx one short.
GetContextWindowShort(self, current_node_id, window_size) ==
    IF current_node_id \notin Keys(self.nodes) THEN <<>>
    ELSE LET sorted_nodes == StableSort(self.nodes, LAMBDA a, b : a.timestamp < b.timestamp)
             current_idx  == CurrentIdx(sorted_nodes, current_node_id)
             start_idx    == Max(0, current_idx - window_size \div 2)
             end_idx      == Min(Len(sorted_nodes), current_idx + window_size \div 2)
         IN  Slice(sorted_nodes, start_idx, end_idx)

\* The list get_context_window returns.
GetContextWindow(self, current_node_id, window_size) ==
    IF current_node_id \notin Keys(self.nodes) THEN <<>>
    ELSE LET sorted_nodes == StableSort(self.nodes, LAMBDA a, b : a.timestamp < b.timestamp)
             current_idx  == CurrentIdx(sorted_nodes, current_node_id)
             start_idx    == Max(0, current_idx - window_size \div 2)
             end_idx      == Min(Len(sorted_nodes), current_idx + window_size \div 2 + 1)
         IN  Slice(sorted_nodes, start_idx, end_idx)

\* get_context_window assigns nothing; results is the list of nodes returned.
ContextWindowCall(self, current_node_id, window_size) ==
    [self |-> self,
     ret  |-> Returned("get_context_window",
                       [current_node_id |-> current_node_id, window_size |-> window_size],
                       "ok", NoId,
                       GetContextWindow(self, current_node_id, window_size),
                       FALSE, <<>>, 0)]

----------------------------------------------------------------------------
(* save and load.  pickle.dump writes the dict of line 358, faiss.write_index *)
(* the index; both read back what was written.                              *)

\* filepath + '.faiss'
FaissPath(filepath) == filepath \o <<".faiss">>

\* open(path, 'wb') and write: the file is created or replaced.
WriteFile(fs, path, content) ==
    [q \in DOMAIN fs \cup {path} |-> IF q = path THEN content ELSE fs[q]]

\* The dict state with a graph that has lost its edges.
SavedStateWithoutEdges(self) ==
    [nodes            |-> self.nodes,
     graph            |-> [nodes |-> self.graph_nodes, edges |-> <<>>],
     index_to_node_id |-> self.index_to_node_id,
     config           |-> [embedding_dim   |-> self.embedding_dim,
                           memory_capacity |-> self.memory_capacity,
                           decay_rate      |-> self.decay_rate]]

\* The dict state of save (lines 358-367).
SavedState(self) ==
    [nodes            |-> self.nodes,
     graph            |-> [nodes |-> self.graph_nodes, edges |-> self.graph_edges],
     index_to_node_id |-> self.index_to_node_id,
     config           |-> [embedding_dim   |-> self.embedding_dim,
                           memory_capacity |-> self.memory_capacity,
                           decay_rate      |-> self.decay_rate]]

SaveCall(self, fs, filepath) ==
    LET pickled == WriteFile(fs, filepath, SavedState(self))
    IN  [self  |-> self,
         files |-> WriteFile(pickled, FaissPath(filepath), self.index),
         ret   |-> Returned("save", [filepath |-> filepath], "ok", NoId, <<>>,
                            FALSE, <<>>, 0)]

\* The fields taken from the unpickled dict, index_to_node_id left as it was.
RestoredKeepingMapping(self, state) ==
    [self EXCEPT !.nodes = state.nodes,
                 !.graph_nodes = state.graph.nodes,
                 !.graph_edges = state.graph.edges,
                 !.embedding_dim = state.config.embedding_dim,
                 !.memory_capacity = state.config.memory_capacity,
                 !.decay_rate = state.config.decay_rate]

\* Lines 382-389: the fields taken from the unpickled dict.
Restored(self, state) ==
    [self EXCEPT !.nodes = state.nodes,
                 !.graph_nodes = state.graph.nodes,
                 !.graph_edges = state.graph.edges,
                 !.index_to_node_id = state.index_to_node_id,
                 !.embedding_dim = state.config.embedding_dim,
                 !.memory_capacity = state.config.memory_capacity,
                 !.decay_rate = state.config.decay_rate]

\* load: open raises FileNotFoundError before anything is assigned,
\* faiss.read_index raises RuntimeError after the fields of lines 382-389
\* were assigned.
LoadCall(self, fs, filepath) ==
    LET args == [filepath |-> filepath]
        Raised(status, after) ==
            [self |-> after,
             ret  |-> Returned("load", args, status, NoId, <<>>, FALSE, self.nodes, 0)]
    IN  IF filepath \notin DOMAIN fs
        THEN Raised("FileNotFoundError", self)
        ELSE IF FaissPath(filepath) \notin DOMAIN fs
        THEN Raised("RuntimeError", Restored(self, fs[filepath]))
        ELSE Raised("ok", [Restored(self, fs[filepath])
                              EXCEPT !.index = fs[FaissPath(filepath)]])

----------------------------------------------------------------------------
(* get_statistics.  A mean is the pair (sum, count), a ratio the pair      *)
(* (numerator, denominator); np.mean of an empty list, nan, is (0, 0).     *)

RECURSIVE Sum(_)
Sum(s) == IF s = <<>> THEN 0 ELSE Head(s) + Sum(Tail(s))

\* np.mean
Mean(s) == <<Sum(s), Len(s)>>

\* _get_modality_distribution
ModalityDistribution(ns) ==
    [m \in {ns[i].modality : i \in DOMAIN ns} |->
        Cardinality({i \in DOMAIN ns : ns[i].modality = m})]

\* nx.density of a DiGraph: 0 for fewer than two nodes, else m / (n (n - 1)).
Density(graph_n, graph_m) ==
    IF graph_n <= 1 THEN <<0, 1>> ELSE <<graph_m, graph_n * (graph_n - 1)>>

GetStatistics(self) ==
    LET n == Cardinality(self.graph_nodes)
        m == Len(self.graph_edges)
    IN  [total_nodes           |-> Len(self.nodes),
         total_edges           |-> m,
         modality_distribution |-> ModalityDistribution(self.nodes),
         avg_importance        |-> Mean([i \in DOMAIN self.nodes |-> self.nodes[i].importance]),
         avg_emotional_valence |-> Mean([i \in DOMAIN self.nodes |->
                                         self.nodes[i].emotional_valence]),
         graph_density         |-> Density(n, m),
         avg_degree            |-> IF n > 0 THEN <<2 * m, n>> ELSE <<0, 1>>]

----------------------------------------------------------------------------
(* The inputs the calls are given. *)

Input(embedding, modality, valence, importance) ==
    [embedding |-> embedding, modality |-> modality,
     emotional_valence |-> valence, importance |-> importance]

Vec(x) == NdArray(<<1>>, <<x>>)

\* Arguments add_memory accepts: both ends of the importance range, both ends
\* of the valence range.
GoodInputs ==
    { Input(Vec(0), "text", -10, 0),
      Input(Vec(2), "image", 10, 10) }

\* Arguments outside the documented ranges or shapes: valence 2.0,
\* importance 1.5 and -0.1, a 2-element embedding, a 1x1 matrix.
BadInputs ==
    { Input(Vec(0), "text", 20, 5),
      Input(Vec(0), "text", 0, 15),
      Input(Vec(0), "text", 0, -1),
      Input(NdArray(<<2>>, <<0, 0>>), "text", 0, 5),
      Input(NdArray(<<1, 1>>, <<0>>), "text", 0, 5) }

\* An id no add_memory call returned.
UnknownId == <<-1, 0>>

\* parent_node_ids: None, or one id: the oldest live node, a removed node or
\* an unknown id.
ParentLists(self) ==
    LET oldest  == IF self.nodes = <<>> THEN {} ELSE {self.nodes[1].node_id}
        removed == Range(self.index_to_node_id) \ Keys(self.nodes)
    IN  {<<>>} \cup {<<p>> : p \in oldest \cup removed \cup {UnknownId}}

Queries == {Vec(0), Vec(2)}

----------------------------------------------------------------------------
(* The state after __init__ and the actions. *)

\* Nothing has been saved.
NoFiles == [path \in {} |-> <<>>]

DefaultDecay == [num |-> 19, den |-> 20]
NoDecay == [num |-> 1, den |-> 1]

NoCall == Returned("__init__", <<>>, "ok", NoId, <<>>, FALSE, <<>>, 0)

\* The threads of the process that call the instance.
Threads == {1, 2}

\* A thread that is in no call.  In a call: pc is the statement it executes
\* next, node the MemoryNode add_memory built, hits what index.search handed
\* back, results the list retrieve returns (objs: the node objects of its
\* entries), i the position of the loop of lines 259-260 and count the
\* access_count it read there.
Idle ==
    [pc |-> "idle", op |-> "none", args |-> <<>>, node |-> <<>>,
     parent_node_ids |-> <<>>, hits |-> <<>>, results |-> <<>>, objs |-> <<>>,
     i |-> 0, count |-> 0]

\* No call in progress.  locking is the discipline of the callers:
\* "serialized" (one call at a time), "readers_writer" (retrieve calls may
\* overlap each other, nothing overlaps an add_memory) or "none"; started
\* and inserts count the calls and the add_memory calls begun, and handed
\* lists the node ids of the lists the retrieve calls returned.
NoThreads ==
    [locking |-> "serialized", started |-> 0, inserts |-> 0, handed |-> <<>>,
     call |-> [t \in Threads |-> Idle]]

\* An empty dict, and d after d[k] = v.
NoDict == [k \in {} |-> <<>>]

DictSet(d, k, v) == [x \in DOMAIN d \cup {k} |-> IF x = k THEN v ELSE d[x]]

\* No delegate_and_execute call: subtasks is the argument, agents the keys
\* of self.agents, pending (the ids of the dict, in its order), completed,
\* results, ready_tasks, execute_coroutines and task_results are the locals
\* of the call, status is task.status of each subtask, and executed lists
\* the agent.execute_task calls made, in order.
NoOrch ==
    [pc |-> "none", subtasks |-> <<>>, agents |-> {}, pending |-> <<>>,
     completed |-> {}, results |-> NoDict, status |-> NoDict,
     ready_tasks |-> <<>>, execute_coroutines |-> <<>>, task_results |-> <<>>,
     executed |-> <<>>]

\* No DistributedJobManager: job_queue and results are its fields, worker
\* is the position of the worker thread and job the tuple it took from the
\* queue; submitted lists the submit_job calls, ran the submit_job calls
\* whose function the worker called, in order, and got is what the last
\* get_result call returned.
NoJobs ==
    [worker |-> "none", job_queue |-> <<>>, results |-> NoDict, job |-> <<>>,
     submitted |-> <<>>, ran |-> <<>>, got |-> <<>>]

MemoryConstructed(dim, capacity, rate) ==
    /\ nodes = <<>>
    /\ graph_nodes = {}
    /\ graph_edges = <<>>
    /\ index = [d |-> dim, vectors |-> <<>>]
    /\ index_to_node_id = <<>>
    /\ embedding_dim = dim
    /\ memory_capacity = capacity
    /\ decay_rate = rate
    /\ clock = 0
    /\ ret = NoCall
    /\ files = NoFiles
    /\ threads = NoThreads

Constructed(dim, capacity, rate) ==
    /\ MemoryConstructed(dim, capacity, rate)
    /\ orch = NoOrch
    /\ jobs = NoJobs

\* An add_memory call made when the clock has advanced by dt since the
\* call before it (0: datetime.now() returns the value it returned then).
AddMemory(inputs, parents, limit, elapsed) ==
    /\ Len(nodes) < limit
    /\ Len(index_to_node_id) < limit
    /\ \E dt \in elapsed, in \in inputs, parent_node_ids \in parents :
          /\ clock + dt <= MaxClock
          /\ \E call \in {AddMemoryCall(Self, clock + dt, in.embedding, in.modality,
                                        in.emotional_valence, in.importance,
                                        parent_node_ids)} :
                /\ Install(call.self)
                /\ ret' = call.ret
                /\ clock' = clock + dt
                /\ UNCHANGED <<files, threads, orch, jobs>>

RECURSIVE TotalAccess(_)
TotalAccess(ns) ==
    IF ns = <<>> THEN 0 ELSE Head(ns).access_count + TotalAccess(Tail(ns))

\* A retrieve call; filters are the pairs (modality_filter, min_importance).
Retrieve(queries, top_ks, filters) ==
    \E query \in queries, top_k \in top_ks, filter \in filters,
       include_neighbors \in BOOLEAN :
          \E call \in {RetrieveCall(Self, query, top_k, filter[1], filter[2],
                                    include_neighbors)} :
              /\ TotalAccess(call.self.nodes) <= MaxAccess
              /\ Install(call.self)
              /\ ret' = call.ret
              /\ UNCHANGED <<clock, files, threads, orch, jobs>>

\* The fields __init__ leaves: an empty store, graph, index and mapping.
Fresh(dim, capacity, rate) ==
    [nodes |-> <<>>, graph_nodes |-> {}, graph_edges |-> <<>>,
     index |-> [d |-> dim, vectors |-> <<>>], index_to_node_id |-> <<>>,
     embedding_dim |-> dim, memory_capacity |-> capacity, decay_rate |-> rate]

\* A new process constructs a new instance; the files are still there.
NewInstance(dims, capacity, rate) ==
    \E dim \in dims :
        /\ Install(Fresh(dim, capacity, rate))
        /\ ret' = NoCall
        /\ UNCHANGED <<clock, files, threads, orch, jobs>>

ContextWindow(ids, window_sizes) ==
    \E current_node_id \in ids, window_size \in window_sizes :
        \E call \in {ContextWindowCall(Self, current_node_id, window_size)} :
            /\ Install(call.self)
            /\ ret' = call.ret
            /\ UNCHANGED <<clock, files, threads, orch, jobs>>

Save(paths) ==
    \E filepath \in paths :
        \E call \in {SaveCall(Self, files, filepath)} :
            /\ Install(call.self)
            /\ files' = call.files
            /\ ret' = call.ret
            /\ UNCHANGED <<clock, threads, orch, jobs>>

Load(paths) ==
    \E filepath \in paths :
        \E call \in {LoadCall(Self, files, filepath)} :
            /\ Install(call.self)
            /\ ret' = call.ret
            /\ UNCHANGED <<clock, files, threads, orch, jobs>>

----------------------------------------------------------------------------
(* Spec: inserts with every kind of argument into a small store. *)

Init ==
    Constructed(1, 2, DefaultDecay)

Insert == AddMemory(GoodInputs \cup BadInputs, ParentLists(Self), MaxNodes, {0, 1})

Next == Insert

Spec == Init /\ [][Next]_vars

----------------------------------------------------------------------------
(* Claims checked under Spec. *)

AllInputs == GoodInputs \cup BadInputs

\* add_memory applied to the current state.
Add(in, parent_node_ids) ==
    AddMemoryCall(Self, clock, in.embedding, in.modality, in.emotional_valence,
                  in.importance, parent_node_ids)

\* C1: after every add_memory call that returns, the number of nodes in the
\* store is at most the configured capacity.
C1_CountWithinCapacity ==
    (ret.op = "add_memory" /\ ret.status = "ok") => Len(nodes) <= memory_capacity

\* C2: after every completed add_memory the graph's node set is the store's
\* key set and the position-to-id mapping has at least as many entries as
\* the store has nodes.
C2_StoreGraphIndexAgree ==
    (ret.op = "add_memory" /\ ret.status = "ok") =>
        /\ graph_nodes = Keys(nodes)
        /\ Len(index_to_node_id) >= Len(nodes)

\* C5: in every reachable state, add_memory with an importance outside [0,1]
\* raises the validation error and leaves store, graph, index and mapping as
\* they were; with importance exactly 0.0 or 1.0 (and a well-formed
\* embedding) it returns an id.
C5_ImportanceValidated ==
    \A in \in AllInputs, p \in ParentLists(Self) :
        LET call == Add(in, p)
        IN  /\ (in.importance < 0 \/ in.importance > 10) =>
                  (call.ret.status = "ValueError" /\ call.self = Self)
            /\ (in \in GoodInputs /\ in.importance \in {0, 10}) =>
                  (call.ret.status = "ok" /\ call.ret.node_id \in Keys(call.self.nodes))

\* An add_memory with importance 1.5 was rejected by a store that holds a
\* node of importance 0.0 and a node of importance 1.0.
C5_Witness ==
    /\ ret.op = "add_memory" /\ ret.status = "ValueError"
    /\ ret.args.importance = 15
    /\ \E i, j \in DOMAIN nodes : nodes[i].importance = 0 /\ nodes[j].importance = 10

\* C6: a step that leaves behind an add_memory call whose embedding length
\* is not the configured dimension has failed and has changed neither the
\* store nor the graph nor the index nor the mapping.
C6_DimensionCheckedFirst ==
    [][(/\ ret'.op = "add_memory"
        /\ Ndim(ret'.args.embedding) = 1
        /\ Len(ret'.args.embedding.data) # embedding_dim)
       => (/\ ret'.status # "ok"
           /\ UNCHANGED <<nodes, graph_nodes, graph_edges, index, index_to_node_id>>)]_vars

\* C7: add_memory with an emotional valence outside [-1,1] raises the
\* validation error and creates no node, so no node of the store has such a
\* valence.
C7_ValenceValidated ==
    /\ (/\ ret.op = "add_memory"
        /\ (ret.args.emotional_valence < -10 \/ ret.args.emotional_valence > 10))
       => ret.status = "ValueError"
    /\ \A i \in DOMAIN nodes :
          -10 <= nodes[i].emotional_valence /\ nodes[i].emotional_valence <= 10

\* C10: an add_memory that returned an id (and evicted nothing) has created
\* temporal edges of strength 0.5 into the new node from exactly
\* min(5, number of other nodes) other nodes, none of them created before a
\* node left out, and never from the new node itself.
C10_TemporalEdgesFromMostRecent ==
    (/\ ret.op = "add_memory" /\ ret.status = "ok"
     /\ (ret.pruned => Len(ret.population) < 10)) =>
        LET new     == ret.node_id
            others  == {n \in Range(nodes) : n.node_id # new}
            into    == {e \in Range(graph_edges) :
                           e.target_id = new /\ e.edge_type = "temporal"}
            sources == {e.source_id : e \in into}
        IN  /\ Cardinality(sources) = Min(5, Cardinality(others))
            /\ new \notin sources
            /\ \A e \in into : e.strength = 5
            /\ \A s \in others, o \in others :
                   (s.node_id \in sources /\ o.node_id \notin sources)
                       => s.timestamp >= o.timestamp

\* C28: an add_memory step whose index.add failed has raised the error and
\* returned no id, has left the new node in the store and in the graph, and
\* has left the index and the mapping as they were, so the store holds a
\* node that has no index position.
C28_IndexFailureNotRolledBack ==
    [][(ret'.op = "add_memory" /\ ret'.status = "AssertionError") =>
          /\ ret'.node_id = NoId
          /\ \E n \in Range(nodes') :
                /\ nodes' = Append(nodes, n)
                /\ n.embedding = ret'.args.embedding
                /\ graph_nodes' = graph_nodes \cup {n.node_id}
                /\ n.node_id \notin Range(index_to_node_id')
          /\ UNCHANGED <<index, index_to_node_id, graph_edges>>
          /\ Len(nodes') > Len(index_to_node_id')]_vars

\* An add_memory with a 2-element embedding has failed in a store of
\* dimension 1 that already held a node.
C28_Witness ==
    /\ ret.op = "add_memory" /\ ret.status = "AssertionError"
    /\ Len(nodes) >= 2
    /\ Len(index_to_node_id) >= 1
    /\ Len(nodes[Len(nodes)].embedding.data) = 2

----------------------------------------------------------------------------
(* SpecRetrieve: retrieve with every combination of its arguments over a   *)
(* small store of well-formed nodes; the default capacity, so no eviction. *)

InitRetrieve == Constructed(1, 100000, DefaultDecay)

InsertGood == AddMemory(GoodInputs, ParentLists(Self), MaxNodes, {1})

\* No filter, a modality filter, an importance threshold of 0.9.
Filters == {<<NoFilter, 0>>, <<"image", 0>>, <<NoFilter, 9>>}

Search == Retrieve(Queries, 1..MaxTopK, Filters)

NextRetrieve == InsertGood \/ Search

SpecRetrieve == InitRetrieve /\ [][NextRetrieve]_vars

\* C8: every node retrieve returns has importance >= min_importance and,
\* when a modality_filter is given, that modality.
C8_ResultsPassFilters ==
    (ret.op = "retrieve" /\ ret.status = "ok") =>
        \A i \in DOMAIN ret.results :
            PassesFilters(Node(nodes, ret.results[i].node_id),
                          ret.args.modality_filter, ret.args.min_importance)

\* The list results of line 231 of the retrieve call that ret reports: it
\* reads importances, embeddings and the mapping, which retrieve leaves alone.
PrimaryOfRet ==
    Primary(Self,
            Candidates(Self, Hits(Self, ret.args.query_embedding, ret.args.top_k),
                       ret.args.modality_filter, ret.args.min_importance),
            ret.args.top_k)

\* Every score the call computed for node id: as a primary result, and as a
\* neighbour of each primary result.
ScoresComputed(id) ==
    LET all == PrimaryOfRet \o NeighborNodes(Self, PrimaryOfRet)
    IN  {all[i].score : i \in {j \in DOMAIN all : all[j].node_id = id}}

\* C18: with include_neighbors, a node of the merged result appears once and
\* carries the greatest of the scores computed for it.
C18_DedupKeepsMaxScore ==
    (ret.op = "retrieve" /\ ret.status = "ok" /\ ret.args.include_neighbors) =>
        \A i \in DOMAIN ret.results :
            /\ \A j \in DOMAIN ret.results :
                  j # i => ret.results[j].node_id # ret.results[i].node_id
            /\ \A sc \in ScoresComputed(ret.results[i].node_id) :
                  ret.results[i].score >= sc

\* 1 / (1 + squared distance) between the node's embedding and the query of
\* the call ret reports equals score (in thousandths).
IsSimilarity(score, node) ==
    score * (1 + SquaredL2(node.embedding.data, ret.args.query_embedding.data)) = 1000

\* 0.7 x similarity + 0.3 x importance of the node for that query, in
\* ten-thousandths, equals combined.
IsCombined(combined, node) ==
    \E sim \in 0..1000 :
        /\ IsSimilarity(sim, node)
        /\ combined = 7 * sim + 300 * node.importance

\* The entries of the returned list are in non-increasing order of score.
NonIncreasingScores ==
    \A i, j \in DOMAIN ret.results :
        i < j => ret.results[i].score >= ret.results[j].score

\* Node id is a predecessor or a successor of node p in the graph.
Adjacent(p, id) ==
    \E e \in Range(graph_edges) :
        \/ (e.source_id = p /\ e.target_id = id)
        \/ (e.source_id = id /\ e.target_id = p)

\* C19 (as stated): a primary result carries its combined score
\* 0.7 x similarity + 0.3 x importance, a node reached as a neighbour of a
\* primary result p carries 0.6 x p's combined score, and the list is in
\* non-increasing order of these scores.
C19_ScoresAreCombined ==
    (ret.op = "retrieve" /\ ret.status = "ok") =>
        /\ \A i \in DOMAIN ret.results :
              LET r == ret.results[i]
              IN  IF r.node_id \in Keys(PrimaryOfRet)
                  THEN IsCombined(10 * r.score, Node(nodes, r.node_id))
                  ELSE \E p \in Keys(PrimaryOfRet) :
                          /\ Adjacent(p, r.node_id)
                          /\ \E c \in 0..10000 : /\ IsCombined(c, Node(nodes, p))
                                                  /\ 100 * r.score = 6 * c
        /\ NonIncreasingScores

\* C19 (amended): a primary result carries its similarity 1 / (1 + squared
\* distance), a node reached only as a neighbour of a primary result p
\* carries 0.6 x p's similarity; with include_neighbors the list is in
\* non-increasing order of these scores, without it in non-increasing order
\* of 0.7 x similarity + 0.3 x importance.
C19_ScoresAreSimilarities ==
    (ret.op = "retrieve" /\ ret.status = "ok") =>
        /\ \A i \in DOMAIN ret.results :
              LET r == ret.results[i]
              IN  IF r.node_id \in Keys(PrimaryOfRet)
                  THEN IsSimilarity(r.score, Node(nodes, r.node_id))
                  ELSE \E p \in Keys(PrimaryOfRet) :
                          /\ Adjacent(p, r.node_id)
                          /\ \E sim \in 0..1000 : /\ IsSimilarity(sim, Node(nodes, p))
                                                   /\ 10 * r.score = 6 * sim
        /\ IF ret.args.include_neighbors
           THEN NonIncreasingScores
           ELSE \A i, j \in DOMAIN ret.results :
                   i < j => 7 * ret.results[i].score
                              + 300 * Node(nodes, ret.results[i].node_id).importance
                            >= 7 * ret.results[j].score
                              + 300 * Node(nodes, ret.results[j].node_id).importance

\* A retrieve with include_neighbors returned a primary result and, after
\* it, a node that is in the list only as its neighbour.
C19_Witness ==
    /\ ret.op = "retrieve" /\ ret.status = "ok"
    /\ ret.args.include_neighbors
    /\ Len(ret.results) = 2
    /\ ret.results[1].node_id \in Keys(PrimaryOfRet)
    /\ ret.results[2].node_id \notin Keys(PrimaryOfRet)

\* The instance after _remove_node was applied to every node: the index and
\* the mapping keep their positions.
Emptied ==
    LET m == RemoveNodes([nodes |-> nodes, graph_nodes |-> graph_nodes,
                          graph_edges |-> graph_edges],
                         [i \in DOMAIN nodes |-> nodes[i].node_id])
    IN  [Self EXCEPT !.nodes = m.nodes, !.graph_nodes = m.graph_nodes,
                     !.graph_edges = m.graph_edges]

\* Queries of the configured dimension and one of another dimension, which
\* index.search would reject.
AnyQueries == Queries \cup {NdArray(<<2>>, <<0, 0>>)}

\* C17: retrieve on a store with no nodes returns the empty list, whatever
\* the query (the index is not asked, so a query it would reject is not
\* rejected), and changes nothing; so it does on the current store when it
\* is empty and on the store left by removing every node, whose index still
\* holds their positions.
C17_EmptyStoreReturnsEmpty ==
    \A self \in {Self, Emptied} :
        Len(self.nodes) = 0 =>
            \A query \in AnyQueries, top_k \in 1..MaxTopK, include_neighbors \in BOOLEAN :
                LET call == RetrieveCall(self, query, top_k, NoFilter, 0, include_neighbors)
                IN  /\ call.ret.status = "ok"
                    /\ call.ret.results = <<>>
                    /\ call.self = self

\* A retrieve call was made on the empty store and returned the empty list.
C17_Witness ==
    /\ ret.op = "retrieve" /\ ret.status = "ok" /\ ret.results = <<>>
    /\ nodes = <<>>

----------------------------------------------------------------------------
(* SpecEvict: a store of capacity 10 filled past its capacity, so that     *)
(* _prune_memories removes nodes.  The n-th node stored follows the        *)
(* scenario of ascending importance 0.0, 0.1, ... 1.0; days may pass       *)
(* between the calls and retrieve calls raise access counts.               *)

\* The arguments of the add_memory call made when the store holds n nodes.
Ascending(n) ==
    Input(Vec(n % 4), IF n % 2 = 0 THEN "text" ELSE "image", 0, Min(n, 10))

InitEvict == \E rate \in {NoDecay, DefaultDecay} : Constructed(1, 10, rate)

InsertNext == AddMemory({Ascending(Len(nodes))}, {<<>>}, MaxInserts, {0, MaxClock})

Lookup == Retrieve(Queries, {2}, {<<NoFilter, 0>>})

NextEvict == InsertNext \/ Lookup

SpecEvict == InitEvict /\ [][NextEvict]_vars


\* Some node was removed: an index position maps to an id that is not a key.
SomeRemoved == \E i \in DOMAIN index_to_node_id : index_to_node_id[i] \notin Keys(nodes)

\* C3: once nodes have been removed by eviction, a retrieve call completes
\* without error and returns only nodes that are in the store.
C3_RetrieveSkipsStale ==
    (ret.op = "retrieve" /\ SomeRemoved) =>
        /\ ret.status = "ok"
        /\ \A i \in DOMAIN ret.results : ret.results[i].node_id \in Keys(nodes)

\* C4: the list retrieve returns has at most top_k entries and no node id
\* twice.
C4_NoDuplicatesAtMostTopK ==
    (ret.op = "retrieve" /\ ret.status = "ok") =>
        /\ Len(ret.results) <= ret.args.top_k
        /\ \A i, j \in DOMAIN ret.results :
              i # j => ret.results[i].node_id # ret.results[j].node_id

\* importance x decay_rate^age_in_days + min(0.1 x access_count, 0.5) of node
\* x is no greater than that of node y, at clock value now (both sides
\* multiplied by 10 x den^m, m the greater of the two ages).
ScoreAtMost(x, y, now, rate) ==
    LET ax == now - x.timestamp
        ay == now - y.timestamp
        m  == IF ax > ay THEN ax ELSE ay
    IN  x.importance * Pow(rate.num, ax) * Pow(rate.den, m - ax)
            + Min(x.access_count, 5) * Pow(rate.den, m)
          <= y.importance * Pow(rate.num, ay) * Pow(rate.den, m - ay)
            + Min(y.access_count, 5) * Pow(rate.den, m)

\* C9: an add_memory that left n > capacity nodes has removed exactly
\* floor(n/10) of them, none with a greater total score than a node it kept;
\* with capacity 10, decay_rate 1.0 and 11 never-accessed nodes of strictly
\* ascending importance the one removed is the first, and 10 remain.
C9_EvictsLowestTenth ==
    (ret.op = "add_memory" /\ ret.pruned) =>
        LET pop     == ret.population
            removed == {p \in Range(pop) : p.node_id \notin Keys(nodes)}
            kept    == {p \in Range(pop) : p.node_id \in Keys(nodes)}
        IN  /\ Len(pop) > memory_capacity
            /\ Cardinality(removed) = Len(pop) \div 10
            /\ Len(nodes) = Len(pop) - Len(pop) \div 10
            /\ \A r \in removed, k \in kept : ScoreAtMost(r, k, ret.now, decay_rate)
            /\ (/\ memory_capacity = 10 /\ decay_rate = NoDecay /\ Len(pop) = 11
                /\ \A i \in DOMAIN pop : pop[i].access_count = 0
                /\ \A i \in 1..10 : pop[i].importance < pop[i + 1].importance)
               => (removed = {pop[1]} /\ Len(nodes) = 10)

\* The scenario: capacity 10, decay_rate 1.0, the 11th insert of never
\* accessed nodes with importance 0.0, 0.1, ... 1.0 has just removed the
\* node of importance 0.0.
C9_Witness ==
    /\ ret.op = "add_memory" /\ ret.pruned
    /\ memory_capacity = 10 /\ decay_rate = NoDecay
    /\ Len(ret.population) = 11
    /\ \A i \in 1..11 : ret.population[i].importance = i - 1
                        /\ ret.population[i].access_count = 0
    /\ Len(nodes) = 10
    /\ \A i \in DOMAIN nodes : nodes[i].importance # 0

\* The instance a new process gets by constructing an instance with the
\* default capacity and decay rate and loading what the current one saves.
SavedAndLoaded ==
    LoadCall(Fresh(embedding_dim, 100000, DefaultDecay),
             SaveCall(Self, files, <<"a">>).files, <<"a">>)

\* The node ids of the list a retrieve call returned.
ResultIds(call) == [i \in DOMAIN call.ret.results |-> call.ret.results[i].node_id]

EdgePairs(es) == {<<es[i].source_id, es[i].target_id>> : i \in DOMAIN es}

\* C21: a step in which eviction removed nodes leaves none of them in the
\* store or in the graph, keeps of the edges exactly those with no removed
\* endpoint, and leaves the index and the mapping as the insert made them
\* (the old content plus the new node's entry); and after every step each
\* edge of the graph has both endpoints in the store.
C21_RemovalCascades ==
    [][/\ \A i \in DOMAIN graph_edges' :
             /\ graph_edges'[i].source_id \in Keys(nodes')
             /\ graph_edges'[i].target_id \in Keys(nodes')
       /\ (ret'.op = "add_memory" /\ ret'.pruned) =>
             LET removed == Keys(ret'.population) \ Keys(nodes')
             IN  /\ removed \cap graph_nodes' = {}
                 /\ graph_nodes' = Keys(nodes')
                 /\ \A e \in Range(graph_edges) :
                       (e.source_id \notin removed /\ e.target_id \notin removed)
                           => <<e.source_id, e.target_id>> \in EdgePairs(graph_edges')
                 /\ index_to_node_id' = Append(index_to_node_id, ret'.node_id)
                 /\ index'.vectors = Append(index.vectors, ret'.args.embedding.data)
                 /\ removed \subseteq Range(index_to_node_id')]_vars

\* An eviction has just removed a node; edges remain in the graph and the
\* mapping still holds the removed node's id.
C21_Witness ==
    /\ ret.op = "add_memory" /\ ret.pruned
    /\ Keys(ret.population) \ Keys(nodes) # {}
    /\ graph_edges # <<>>
    /\ Len(index_to_node_id) = Len(ret.population)
    /\ Len(index.vectors) = Len(ret.population)

\* C22: eviction runs only in an add_memory that left more nodes than the
\* capacity; an add_memory that left at most the capacity has removed no
\* node from the store or the graph and no edge.
C22_NoEvictionWithinCapacity ==
    [][(ret'.op = "add_memory" /\ ret'.status = "ok") =>
          /\ ret'.pruned => Len(ret'.population) > memory_capacity
          /\ ~ret'.pruned =>
                /\ Len(nodes') <= memory_capacity
                /\ Keys(nodes) \subseteq Keys(nodes')
                /\ graph_nodes \subseteq graph_nodes'
                /\ EdgePairs(graph_edges) \subseteq EdgePairs(graph_edges')]_vars

\* An add_memory has filled the store exactly to its capacity and ran no
\* eviction.
C22_Witness ==
    /\ ret.op = "add_memory" /\ ret.status = "ok" /\ ~ret.pruned
    /\ Len(nodes) = memory_capacity
    /\ graph_edges # <<>>

\* The candidates of the retrieve call ret reports that are in the store and
\* pass its filters, as (node id, combined score in ten-thousandths).
PassingCandidates ==
    LET hits == Hits(Self, ret.args.query_embedding, ret.args.top_k)
        kept == SelectSeq(hits, LAMBDA h :
                    /\ HitId(Self, h) \in Keys(nodes)
                    /\ PassesFilters(Node(nodes, HitId(Self, h)),
                                     ret.args.modality_filter, ret.args.min_importance))
    IN  [i \in DOMAIN kept |->
            [node_id  |-> HitId(Self, kept[i]),
             combined |-> 7 * (1000 \div (1 + kept[i].dist))
                            + 300 * Node(nodes, HitId(Self, kept[i])).importance]]

\* C26: without include_neighbors, retrieve returns min(top_k, number of
\* live filter-passing candidates) of these candidates, in non-increasing
\* order of 0.7 x similarity + 0.3 x importance, and none of them has a
\* lower combined score than a live filter-passing candidate left out.
C26_TopKByCombinedScore ==
    (ret.op = "retrieve" /\ ~ret.args.include_neighbors) =>
        /\ ret.status = "ok"
        /\ LET passing == PassingCandidates
           IN  \E chosen \in SUBSET DOMAIN passing :
                  /\ Cardinality(chosen) = Min(ret.args.top_k, Len(passing))
                  /\ Len(ret.results) = Cardinality(chosen)
                  /\ \A c \in chosen, o \in DOMAIN passing \ chosen :
                        passing[c].combined >= passing[o].combined
                  /\ \E order \in [DOMAIN ret.results -> chosen] :
                        /\ \A i, j \in DOMAIN ret.results : i # j => order[i] # order[j]
                        /\ \A i \in DOMAIN ret.results :
                              ret.results[i].node_id = passing[order[i]].node_id
                        /\ \A i, j \in DOMAIN ret.results :
                              i < j => passing[order[i]].combined
                                         >= passing[order[j]].combined

\* C27: after every step the mapping has one entry per vector of the index
\* and no id at two positions; a step that is a completed add_memory has
\* appended the id it returned, and every other step has left the mapping
\* as it was.
C27_MappingFollowsInserts ==
    [][/\ Len(index_to_node_id') = Len(index'.vectors)
       /\ \A i, j \in DOMAIN index_to_node_id' :
             i # j => index_to_node_id'[i] # index_to_node_id'[j]
       /\ IF ret'.op = "add_memory" /\ ret'.status = "ok"
          THEN index_to_node_id' = Append(index_to_node_id, ret'.node_id)
          ELSE index_to_node_id' = index_to_node_id]_vars

\* C16: a step that stores a node stores it with access_count 0, and a
\* retrieve step adds exactly 1 to the access_count of each node in the list
\* it returns and changes nothing else: no other node, not the key set, not
\* the graph, the index or the mapping.
C16_RetrieveCountsAccessOnly ==
    [][/\ (ret'.op = "add_memory" /\ ret'.status = "ok" /\ ret'.node_id \in Keys(nodes'))
          => Node(nodes', ret'.node_id).access_count = 0
       /\ (ret'.op = "retrieve")
          => /\ nodes' = [i \in DOMAIN nodes |->
                            [nodes[i] EXCEPT !.access_count =
                                IF \E j \in DOMAIN ret'.results :
                                       ret'.results[j].node_id = nodes[i].node_id
                                THEN @ + 1 ELSE @]]
             /\ UNCHANGED <<graph_nodes, graph_edges, index, index_to_node_id>>]_vars

----------------------------------------------------------------------------
(* Claims about the edges and ids add_memory creates. *)

\* C11: a step that is an add_memory call given a live parent id p leaves the
\* causal edge p -> new node of strength 0.8 in the graph, also when p gets a
\* temporal edge to the new node in the same call.
C11_CausalEdgeKept ==
    [][\A in \in GoodInputs, p \in ParentLists(Self) :
          LET call == AddMemoryCall(Self, clock', in.embedding, in.modality,
                                    in.emotional_valence, in.importance, p)
          IN  (/\ p # <<>>
               /\ p[1] \in Keys(nodes)
               /\ call.ret.status = "ok"
               /\ ret' = call.ret
               /\ Self' = call.self)
              => \E i \in DOMAIN graph_edges' :
                    graph_edges'[i] = MemoryEdge(p[1], ret'.node_id, "causal", 8)]_vars

\* C12: no two add_memory calls have returned the same node id: every
\* completed call appended the id it returned to index_to_node_id, and no id
\* is there twice.
C12_IdsNeverReused ==
    \A i, j \in DOMAIN index_to_node_id :
        i # j => index_to_node_id[i] # index_to_node_id[j]

----------------------------------------------------------------------------
(* SpecPersist: instances of embedding dimension 1 or 2 that insert, save   *)
(* to one path, and load from it; a new instance may be constructed at any  *)
(* time and finds the files the earlier ones wrote.                         *)

Dims == {1, 2}

Paths == {<<"a">>}

\* Well-formed arguments with a 1-element and with a 2-element embedding.
PersistInputs ==
    { Input(Vec(0), "text", 0, 5),
      Input(NdArray(<<2>>, <<0, 2>>), "image", 0, 10) }

InitPersist == Constructed(1, 100000, DefaultDecay)

InsertAny == AddMemory(PersistInputs, {<<>>}, MaxNodes, {1})

Reconstruct == NewInstance(Dims, 100000, DefaultDecay)

SaveIt == Save(Paths)

LoadIt == Load(Paths)

NextPersist == InsertAny \/ Reconstruct \/ SaveIt \/ LoadIt

SpecPersist == InitPersist /\ [][NextPersist]_vars

\* C14: after a successful load the node table, the graph, the mapping, the
\* index and the configuration are those of the snapshot read, so nothing
\* that only the instance held before the load remains.
C14_LoadReplacesState ==
    (ret.op = "load" /\ ret.status = "ok") =>
        LET state == files[ret.args.filepath]
        IN  /\ nodes = state.nodes
            /\ graph_nodes = state.graph.nodes
            /\ graph_edges = state.graph.edges
            /\ index_to_node_id = state.index_to_node_id
            /\ index = files[FaissPath(ret.args.filepath)]
            /\ embedding_dim = state.config.embedding_dim
            /\ memory_capacity = state.config.memory_capacity
            /\ decay_rate = state.config.decay_rate
            /\ \A i \in DOMAIN ret.population :
                  ret.population[i].node_id \in Keys(nodes)
                      => ret.population[i] \in Range(state.nodes)

\* A load has replaced a store that held a node the snapshot does not have,
\* by a snapshot that is not empty.
C14_Witness ==
    /\ ret.op = "load" /\ ret.status = "ok"
    /\ nodes # <<>>
    /\ \E i \in DOMAIN ret.population : ret.population[i].node_id \notin Keys(nodes)

\* C15: a load step that reads a snapshot whose embedding dimension is not
\* the one the instance was configured with fails and leaves the instance's
\* dimension as it was.
C15_LoadRejectsOtherDimension ==
    [][(/\ ret'.op = "load"
        /\ ret'.args.filepath \in DOMAIN files
        /\ files[ret'.args.filepath].config.embedding_dim # embedding_dim)
       => (ret'.status # "ok" /\ embedding_dim' = embedding_dim)]_vars

----------------------------------------------------------------------------
(* SpecWindow: get_context_window around every node, and around an id that *)
(* is not in the store, of a store filled by calls that may read the same  *)
(* clock value, with retrieve calls in between.                            *)

InitWindow == Constructed(1, 100000, DefaultDecay)

InsertPlain == AddMemory({Input(Vec(0), "text", 0, 5)}, {<<>>}, MaxNodes + 2, {0, 1})

Recall == Retrieve({Vec(0)}, {1}, {<<NoFilter, 0>>})

Window == ContextWindow(Keys(nodes) \cup {UnknownId}, 0..MaxWindow)

NextWindow == InsertPlain \/ Recall \/ Window

SpecWindow == InitWindow /\ [][NextWindow]_vars

\* C20: a get_context_window step changes no state; for an id that is not in
\* the store it returns the empty list, and for a node of the store a run of
\* nodes consecutive in creation order, in non-decreasing timestamp order,
\* that holds the node with min(floor(w/2), nodes before it) nodes before it
\* and min(floor(w/2), nodes after it) after it.
C20_ContextWindow ==
    [][(ret'.op = "get_context_window") =>
        /\ UNCHANGED <<nodes, graph_nodes, graph_edges, index, index_to_node_id,
                       embedding_dim, memory_capacity, decay_rate, files>>
        /\ LET id   == ret'.args.current_node_id
               half == ret'.args.window_size \div 2
               win  == ret'.results
           IN  IF id \notin Keys(nodes) THEN win = <<>>
               ELSE \E k \in DOMAIN win, pos \in DOMAIN nodes :
                       /\ win[k].node_id = id
                       /\ nodes[pos].node_id = id
                       /\ k - 1 = Min(half, pos - 1)
                       /\ Len(win) - k = Min(half, Len(nodes) - pos)
                       /\ \A j \in DOMAIN win : win[j] = nodes[pos - k + j]
                       /\ \A j \in 1..(Len(win) - 1) :
                             win[j].timestamp <= win[j + 1].timestamp
                       /\ \A n \in Range(nodes) \ Range(win) :
                             \/ n.timestamp <= win[1].timestamp
                             \/ n.timestamp >= win[Len(win)].timestamp]_vars

\* get_context_window around a node that has two nodes before it and one
\* after it, some with equal timestamps and one accessed, returned three
\* nodes for window_size 3.
C20_Witness ==
    /\ ret.op = "get_context_window"
    /\ ret.args.window_size = 3
    /\ Len(ret.results) = 3
    /\ Len(nodes) = 4
    /\ ret.args.current_node_id = nodes[3].node_id
    /\ nodes[2].timestamp = nodes[3].timestamp
    /\ nodes[1].timestamp < nodes[4].timestamp
    /\ TotalAccess(nodes) > 0

----------------------------------------------------------------------------
(* SpecEdges: a store of capacity 9 filled past its capacity by inserts that *)
(* name no parent or the seventh node of the store, with reads in between.   *)

MaxLinked == 11

InitEdges == Constructed(1, 9, NoDecay)

\* parent_node_ids: None, or the id of the seventh node of the store.
SeventhAsParent ==
    {<<>>} \cup {<<nodes[i].node_id>> : i \in {7} \cap DOMAIN nodes}

InsertLinked == AddMemory({Ascending(Len(nodes))}, SeventhAsParent, MaxLinked, {0})

LookupOne == Retrieve({Vec(0)}, {1}, {<<NoFilter, 0>>})

WindowOfLast == ContextWindow({nodes[i].node_id : i \in {Len(nodes)} \cap DOMAIN nodes}, {1})

SaveEdges == Save(Paths)

NextEdges == InsertLinked \/ LookupOne \/ WindowOfLast \/ SaveEdges

SpecEdges == InitEdges /\ [][NextEdges]_vars

\* C24: an add_memory step adds only edges whose target is the node it
\* returned, leaves the type and strength of every edge that was there
\* before it as they were, and removes only edges with an endpoint that the
\* step removed from the store; every other step leaves the edges as they
\* were.
C24_EdgesNeverEdited ==
    [][IF ret'.op = "add_memory"
       THEN LET removed == (Keys(nodes) \cup {ret'.node_id}) \ Keys(nodes')
            IN  /\ \A j \in DOMAIN graph_edges' :
                      \/ graph_edges'[j].target_id = ret'.node_id
                      \/ \E i \in DOMAIN graph_edges : graph_edges[i] = graph_edges'[j]
                /\ \A i \in DOMAIN graph_edges, j \in DOMAIN graph_edges' :
                      SamePair(graph_edges[i], graph_edges'[j]) =>
                          /\ graph_edges'[j].edge_type = graph_edges[i].edge_type
                          /\ graph_edges'[j].strength = graph_edges[i].strength
                /\ \A i \in DOMAIN graph_edges :
                      \/ \E j \in DOMAIN graph_edges' :
                            SamePair(graph_edges[i], graph_edges'[j])
                      \/ graph_edges[i].source_id \in removed
                      \/ graph_edges[i].target_id \in removed
       ELSE graph_edges' = graph_edges]_vars

----------------------------------------------------------------------------
(* add_memory and retrieve called from the threads of one process, one       *)
(* statement of the method per step.  The class takes no lock, so the steps  *)
(* of two calls interleave unless the callers keep them apart.               *)

MaxCalls == 2

\* Callers that keep no call apart from any other.
MayEnterUnlocked(t, op) == TRUE

\* TRUE when the callers' discipline lets thread t begin a call of op.
MayEnter(t, op) ==
    \A u \in Threads \ {t} :
        \/ threads.call[u].pc = "idle"
        \/ threads.locking = "none"
        \/ /\ threads.locking = "readers_writer"
           /\ op = "retrieve" /\ threads.call[u].op = "retrieve"

\* The statements of add_memory with the edges linked before the node is
\* in the graph and the index.
AfterLinkingFirst(pc) ==
    CASE pc = "store"    -> "causal"
      [] pc = "causal"   -> "temporal"
      [] pc = "temporal" -> "graph"
      [] pc = "graph"    -> "index"
      [] pc = "index"    -> "mapping"
      [] pc = "mapping"  -> "capacity"
      [] OTHER           -> "idle"

\* The statement of add_memory that follows pc: lines 146, 149, 152, 153,
\* 155-165, 168, 170-172.
After(pc) ==
    CASE pc = "store"    -> "graph"
      [] pc = "graph"    -> "index"
      [] pc = "index"    -> "mapping"
      [] pc = "mapping"  -> "causal"
      [] pc = "causal"   -> "temporal"
      [] pc = "temporal" -> "capacity"
      [] OTHER           -> "idle"

Advance(t) == [threads EXCEPT !.call[t].pc = After(@)]

Finished(t) == [threads EXCEPT !.call[t] = Idle]

\* graph.add_edge(u, v) adds u and v to the graph when they are not in it.
Endpoints(es) ==
    {es[i].source_id : i \in DOMAIN es} \cup {es[i].target_id : i \in DOMAIN es}

\* Lines 130-143: the id is built from len(self.nodes) and datetime.now()
\* and the MemoryNode is constructed.
BeginAddMemory(t, inputs, parents, elapsed) ==
    /\ threads.call[t].pc = "idle"
    /\ threads.started < MaxCalls
    /\ MayEnter(t, "add_memory")
    /\ \E dt \in elapsed, in \in inputs, parent_node_ids \in parents :
          LET now     == clock + dt
              node_id == <<Len(nodes), now>>
              node    == MemoryNode(node_id, now, in.embedding, in.modality,
                                    in.emotional_valence, in.importance)
              args    == [embedding |-> in.embedding, modality |-> in.modality,
                          emotional_valence |-> in.emotional_valence,
                          importance |-> in.importance]
              begun   == [threads EXCEPT !.started = @ + 1, !.inserts = @ + 1]
          IN  /\ now <= MaxClock
              /\ clock' = now
              /\ IF PostInitRaises(node)
                 THEN /\ threads' = begun
                      /\ ret' = Returned("add_memory", args, "ValueError", NoId, <<>>,
                                         FALSE, <<>>, now)
                 ELSE /\ threads' = [begun EXCEPT !.call[t] =
                                        [Idle EXCEPT !.pc = "store", !.op = "add_memory",
                                                     !.args = args, !.node = node,
                                                     !.parent_node_ids = parent_node_ids]]
                      /\ ret' = ret
    /\ UNCHANGED <<nodes, graph_nodes, graph_edges, index, index_to_node_id,
                   embedding_dim, memory_capacity, decay_rate, files, orch, jobs>>

\* Line 146: self.nodes[node_id] = node
StoreStep(t) ==
    /\ threads.call[t].pc = "store"
    /\ nodes' = PutNode(nodes, threads.call[t].node)
    /\ threads' = Advance(t)
    /\ UNCHANGED <<graph_nodes, graph_edges, index, index_to_node_id,
                   embedding_dim, memory_capacity, decay_rate, clock, ret, files, orch, jobs>>

\* Line 149: self.graph.add_node(node_id, ...)
GraphStep(t) ==
    /\ threads.call[t].pc = "graph"
    /\ graph_nodes' = graph_nodes \cup {threads.call[t].node.node_id}
    /\ threads' = Advance(t)
    /\ UNCHANGED <<nodes, graph_edges, index, index_to_node_id,
                   embedding_dim, memory_capacity, decay_rate, clock, ret, files, orch, jobs>>

\* Line 152: self.index.add(embedding.reshape(1, -1))
IndexStep(t) ==
    /\ threads.call[t].pc = "index"
    /\ IF IndexAddRaises(index, threads.call[t].node.embedding)
       THEN /\ ret' = Returned("add_memory", threads.call[t].args, "AssertionError",
                               NoId, <<>>, FALSE, <<>>, clock)
            /\ threads' = Finished(t)
            /\ index' = index
       ELSE /\ index' = IndexAdd(index, threads.call[t].node.embedding)
            /\ threads' = Advance(t)
            /\ ret' = ret
    /\ UNCHANGED <<nodes, graph_nodes, graph_edges, index_to_node_id,
                   embedding_dim, memory_capacity, decay_rate, clock, files, orch, jobs>>

\* Line 153: self.index_to_node_id.append(node_id)
MappingStep(t) ==
    /\ threads.call[t].pc = "mapping"
    /\ index_to_node_id' = Append(index_to_node_id, threads.call[t].node.node_id)
    /\ threads' = Advance(t)
    /\ UNCHANGED <<nodes, graph_nodes, graph_edges, index,
                   embedding_dim, memory_capacity, decay_rate, clock, ret, files, orch, jobs>>

\* Lines 155-165: the causal edges.
CausalStep(t) ==
    /\ threads.call[t].pc = "causal"
    /\ LET new == CausalEdges(nodes, threads.call[t].parent_node_ids,
                              threads.call[t].node.node_id)
       IN  /\ graph_edges' = AddEdges(graph_edges, new)
           /\ graph_nodes' = graph_nodes \cup Endpoints(new)
    /\ threads' = Advance(t)
    /\ UNCHANGED <<nodes, index, index_to_node_id,
                   embedding_dim, memory_capacity, decay_rate, clock, ret, files, orch, jobs>>

\* Line 168: self._create_temporal_edges(node_id)
TemporalStep(t) ==
    /\ threads.call[t].pc = "temporal"
    /\ LET new == TemporalEdges(nodes, threads.call[t].node.node_id)
       IN  /\ graph_edges' = AddEdges(graph_edges, new)
           /\ graph_nodes' = graph_nodes \cup Endpoints(new)
    /\ threads' = Advance(t)
    /\ UNCHANGED <<nodes, index, index_to_node_id,
                   embedding_dim, memory_capacity, decay_rate, clock, ret, files, orch, jobs>>

\* Lines 170-175: the capacity test, _prune_memories, return node_id.
CapacityStep(t) ==
    /\ threads.call[t].pc = "capacity"
    /\ IF OverCapacity(Self)
       THEN /\ Install(Pruned(Self, clock))
            /\ ret' = Returned("add_memory", threads.call[t].args, "ok",
                               threads.call[t].node.node_id, <<>>, TRUE, nodes, clock)
       ELSE /\ Install(Self)
            /\ ret' = Returned("add_memory", threads.call[t].args, "ok",
                               threads.call[t].node.node_id, <<>>, FALSE, <<>>, clock)
    /\ threads' = Finished(t)
    /\ UNCHANGED <<clock, files, orch, jobs>>

\* Lines 198-199: the test for the empty store.
BeginRetrieve(t, queries, top_ks) ==
    /\ threads.call[t].pc = "idle"
    /\ threads.started < MaxCalls
    /\ MayEnter(t, "retrieve")
    /\ \E query \in queries, top_k \in top_ks, include_neighbors \in BOOLEAN :
          LET args  == [query_embedding |-> query, top_k |-> top_k,
                        modality_filter |-> NoFilter, min_importance |-> 0,
                        include_neighbors |-> include_neighbors]
              begun == [threads EXCEPT !.started = @ + 1]
          IN  IF Len(nodes) = 0
              THEN /\ threads' = begun
                   /\ ret' = Retrieved(args, "ok", <<>>)
              ELSE /\ threads' = [begun EXCEPT !.call[t] =
                                     [Idle EXCEPT !.pc = "search", !.op = "retrieve",
                                                  !.args = args]]
                   /\ ret' = ret
    /\ UNCHANGED <<nodes, graph_nodes, graph_edges, index, index_to_node_id,
                   embedding_dim, memory_capacity, decay_rate, clock, files, orch, jobs>>

\* Lines 202-203: self.index.search(query, min(top_k * 3, len(self.nodes)))
SearchStep(t) ==
    /\ threads.call[t].pc = "search"
    /\ IF IndexSearchRaises(index, threads.call[t].args.query_embedding)
       THEN /\ ret' = Retrieved(threads.call[t].args, "AssertionError", <<>>)
            /\ threads' = Finished(t)
       ELSE /\ threads' = [threads EXCEPT
                              !.call[t].pc = "rank",
                              !.call[t].hits = Hits(Self, threads.call[t].args.query_embedding,
                                                    threads.call[t].args.top_k)]
            /\ ret' = ret
    /\ UNCHANGED <<nodes, graph_nodes, graph_edges, index, index_to_node_id,
                   embedding_dim, memory_capacity, decay_rate, clock, files, orch, jobs>>

\* The exception the loop of lines 207-222 raises, "" when it raises none:
\* IndexError at the first position without a mapping entry, KeyError at the
\* first id that is not in self.nodes.
RECURSIVE LoopRaises(_, _)
LoopRaises(self, hits) ==
    IF hits = <<>> THEN ""
    ELSE IF Head(hits).idx + 1 > Len(self.index_to_node_id) THEN "IndexError"
    ELSE IF HitId(self, Head(hits)) \notin Keys(self.nodes) THEN "KeyError"
    ELSE LoopRaises(self, Tail(hits))

\* Lines 205-256: candidates, ranking, neighbours; results is bound here.
RankStep(t) ==
    /\ threads.call[t].pc = "rank"
    /\ LET c      == threads.call[t]
           raised == LoopRaises(Self, c.hits)
       IN  IF raised # ""
           THEN /\ ret' = Retrieved(c.args, raised, <<>>)
                /\ threads' = Finished(t)
           ELSE LET results == Results(Self,
                                       Candidates(Self, c.hits, c.args.modality_filter,
                                                  c.args.min_importance),
                                       c.args.top_k, c.args.include_neighbors)
                IN  IF results = <<>>
                    THEN /\ ret' = Retrieved(c.args, "ok", <<>>)
                         /\ threads' = Finished(t)
                    ELSE /\ ret' = ret
                         /\ threads' = [threads EXCEPT
                                !.call[t].pc = "read",
                                !.call[t].results = results,
                                !.call[t].objs = [i \in DOMAIN results |->
                                                     Node(nodes, results[i].node_id)],
                                !.call[t].i = 1]
    /\ UNCHANGED <<nodes, graph_nodes, graph_edges, index, index_to_node_id,
                   embedding_dim, memory_capacity, decay_rate, clock, files, orch, jobs>>

\* TRUE when a and b are one MemoryNode object, whatever its access_count.
SameObject(a, b) == [a EXCEPT !.access_count = 0] = [b EXCEPT !.access_count = 0]

\* node.access_count of the object obj: the store's node when the store
\* still holds the object, the object itself when it does not.
AccessCountOf(ns, obj) ==
    LET held == {i \in DOMAIN ns : SameObject(ns[i], obj)}
    IN  IF held = {} THEN obj.access_count ELSE ns[CHOOSE i \in held : TRUE].access_count

\* Line 260, first half: node.access_count is read.
ReadCount(t) ==
    /\ threads.call[t].pc = "read"
    /\ threads' = [threads EXCEPT
                      !.call[t].pc = "write",
                      !.call[t].count =
                          AccessCountOf(nodes, threads.call[t].objs[threads.call[t].i])]
    /\ UNCHANGED <<nodes, graph_nodes, graph_edges, index, index_to_node_id,
                   embedding_dim, memory_capacity, decay_rate, clock, ret, files, orch, jobs>>

\* Line 260, second half: node.access_count is written; after the last entry
\* the list is returned (line 262).
WriteCount(t) ==
    /\ threads.call[t].pc = "write"
    /\ LET c     == threads.call[t]
           obj   == c.objs[c.i]
           count == c.count + 1
       IN  /\ nodes' = [i \in DOMAIN nodes |->
                          IF SameObject(nodes[i], obj)
                          THEN [nodes[i] EXCEPT !.access_count = count]
                          ELSE nodes[i]]
           /\ IF c.i = Len(c.results)
              THEN /\ ret' = Retrieved(c.args, "ok", c.results)
                   /\ threads' = [Finished(t) EXCEPT
                         !.handed = @ \o [i \in DOMAIN c.results |-> c.results[i].node_id]]
              ELSE /\ ret' = ret
                   /\ threads' = [threads EXCEPT
                         !.call[t].pc = "read",
                         !.call[t].i = @ + 1,
                         !.call[t].objs = [i \in DOMAIN c.objs |->
                             IF SameObject(c.objs[i], obj)
                             THEN [c.objs[i] EXCEPT !.access_count = count]
                             ELSE c.objs[i]]]
    /\ UNCHANGED <<graph_nodes, graph_edges, index, index_to_node_id,
                   embedding_dim, memory_capacity, decay_rate, clock, files, orch, jobs>>

----------------------------------------------------------------------------
(* SpecThreads: two threads make up to MaxCalls calls on a store that is     *)
(* empty, holds one node, or holds as many nodes as its capacity, 9, under   *)
(* each discipline of the callers.                                           *)

\* The instance after n add_memory calls made one after the other within
\* one value of datetime.now().
RECURSIVE Filled(_)
Filled(n) ==
    IF n = 0 THEN Fresh(1, 9, NoDecay)
    ELSE LET in == Ascending(n - 1)
         IN  AddMemoryCall(Filled(n - 1), 0, in.embedding, in.modality,
                           in.emotional_valence, in.importance, <<>>).self

InitThreads ==
    \E locking \in {"serialized", "readers_writer", "none"}, n \in {0, 1, 9} :
        /\ nodes = Filled(n).nodes
        /\ graph_nodes = Filled(n).graph_nodes
        /\ graph_edges = Filled(n).graph_edges
        /\ index = Filled(n).index
        /\ index_to_node_id = Filled(n).index_to_node_id
        /\ embedding_dim = Filled(n).embedding_dim
        /\ memory_capacity = Filled(n).memory_capacity
        /\ decay_rate = Filled(n).decay_rate
        /\ clock = 0
        /\ ret = NoCall
        /\ files = NoFiles
        /\ threads = [NoThreads EXCEPT !.locking = locking]
        /\ orch = NoOrch
        /\ jobs = NoJobs

\* The arguments of the add_memory calls of the threads: the next of the
\* ascending inputs or a 2-element embedding, no parent or the newest node.
ThreadInputs == {Ascending(Len(nodes)), Input(NdArray(<<2>>, <<0, 0>>), "text", 0, 5)}

NewestAsParent ==
    {<<>>} \cup {<<nodes[i].node_id>> : i \in {Len(nodes)} \cap DOMAIN nodes}

NextThreads ==
    \E t \in Threads :
        \/ BeginAddMemory(t, ThreadInputs, NewestAsParent, {0, MaxClock})
        \/ StoreStep(t)
        \/ GraphStep(t)
        \/ IndexStep(t)
        \/ MappingStep(t)
        \/ CausalStep(t)
        \/ TemporalStep(t)
        \/ CapacityStep(t)
        \/ BeginRetrieve(t, {Vec(0)}, {1})
        \/ SearchStep(t)
        \/ RankStep(t)
        \/ ReadCount(t)
        \/ WriteCount(t)

SpecThreads == InitThreads /\ [][NextThreads]_vars

AllIdle == \A t \in Threads : threads.call[t].pc = "idle"

\* C25: when the callers keep add_memory apart from every other call, the
\* steps of an add_memory call change the instance in a fixed order: the
\* step that adds to the graph finds the node in the store, the step that
\* adds to the index finds it in the store and the graph, the step that
\* appends to the mapping appends the node's id for the vector the index
\* took last, and a step that changes an edge, removes a node or completes
\* the call finds the index and the mapping with the node's entry in place.
C25_InsertOrder ==
    [][threads.locking # "none" =>
          \A t \in Threads :
             (threads.call[t].op = "add_memory" /\ threads'.call[t] # threads.call[t]) =>
                LET node    == threads.call[t].node
                    id      == node.node_id
                    indexed == /\ Len(index.vectors) = Len(index_to_node_id)
                               /\ Len(index_to_node_id) > 0
                               /\ index_to_node_id[Len(index_to_node_id)] = id
                               /\ index.vectors[Len(index.vectors)] = node.embedding.data
                IN  /\ (nodes' # nodes /\ Len(nodes') >= Len(nodes)) =>
                          /\ UNCHANGED <<graph_nodes, graph_edges, index, index_to_node_id>>
                          /\ Len(index.vectors) = Len(index_to_node_id)
                    /\ graph_nodes' # graph_nodes =>
                          \/ /\ graph_nodes' = graph_nodes \cup {id}
                             /\ id \in Keys(nodes)
                             /\ Len(index.vectors) = Len(index_to_node_id)
                             /\ UNCHANGED <<nodes, graph_edges, index, index_to_node_id>>
                          \/ indexed
                    /\ index' # index =>
                          /\ id \in Keys(nodes) /\ id \in graph_nodes
                          /\ Len(index.vectors) = Len(index_to_node_id)
                          /\ index'.vectors = Append(index.vectors, node.embedding.data)
                          /\ UNCHANGED <<nodes, graph_nodes, graph_edges, index_to_node_id>>
                    /\ index_to_node_id' # index_to_node_id =>
                          /\ id \in Keys(nodes) /\ id \in graph_nodes
                          /\ Len(index.vectors) = Len(index_to_node_id) + 1
                          /\ index.vectors[Len(index.vectors)] = node.embedding.data
                          /\ index_to_node_id' = Append(index_to_node_id, id)
                          /\ UNCHANGED <<nodes, graph_nodes, graph_edges, index>>
                    /\ (\/ graph_edges' # graph_edges
                        \/ Len(nodes') < Len(nodes)
                        \/ threads'.call[t].pc = "idle" /\ ret'.status = "ok") => indexed]_vars

\* An add_memory call made step by step has completed, has linked its node
\* to a parent and to recent nodes, and its capacity pass has removed a node.
C25_Witness ==
    /\ threads.locking # "none"
    /\ threads.started > 0
    /\ AllIdle
    /\ ret.op = "add_memory" /\ ret.status = "ok" /\ ret.pruned
    /\ Len(nodes) < Len(ret.population)
    /\ ret.node_id \in Keys(nodes)
    /\ \E i, j \in DOMAIN graph_edges :
          /\ graph_edges[i].target_id = ret.node_id
          /\ graph_edges[i].edge_type = "causal"
          /\ graph_edges[j].target_id = ret.node_id
          /\ graph_edges[j].edge_type = "temporal"

\* C23: when no add_memory call has been made on the store and no call is
\* in progress, the access_count of every node is the number of times the
\* retrieve calls have returned it, and the list the last retrieve call
\* returned is the list the call returns when it runs alone.
C23_ConcurrentReadsSafe ==
    (threads.inserts = 0 /\ AllIdle) =>
        /\ \A i \in DOMAIN nodes :
              nodes[i].access_count =
                  Cardinality({j \in DOMAIN threads.handed :
                                  threads.handed[j] = nodes[i].node_id})
        /\ ret.op = "retrieve" =>
              /\ ret.status = "ok"
              /\ ret.results =
                    RetrieveCall(Self, ret.args.query_embedding, ret.args.top_k,
                                 ret.args.modality_filter, ret.args.min_importance,
                                 ret.args.include_neighbors).ret.results

\* C29: a retrieve call meets an index position that has no mapping entry
\* (it holds such a position, or has raised IndexError for it) only when
\* the callers keep retrieve and add_memory apart by no lock.
C29_UnmappedPositionNeedsNoLock ==
    (\/ ret.op = "retrieve" /\ ret.status = "IndexError"
     \/ \E t \in Threads :
           /\ threads.call[t].op = "retrieve"
           /\ \/ Len(index.vectors) # Len(index_to_node_id)
              \/ \E i \in DOMAIN threads.call[t].hits :
                    threads.call[t].hits[i].idx + 1 > Len(index_to_node_id))
        => threads.locking = "none"

\* A retrieve call has raised IndexError while an add_memory call stands
\* between its index.add and its append to the mapping.
C29_Witness ==
    /\ threads.locking = "none"
    /\ ret.op = "retrieve" /\ ret.status = "IndexError"
    /\ \E t \in Threads : threads.call[t].pc = "mapping"
    /\ Len(index.vectors) = Len(index_to_node_id) + 1

\* C30: when the callers make one call at a time, no two add_memory calls
\* have computed the same id (no id is at two positions of the mapping),
\* and every mapping entry that names a stored node stands at the position
\* of that node's embedding in the index.
C30_SerializedInsertsConsistent ==
    threads.locking = "serialized" =>
        /\ \A i, j \in DOMAIN index_to_node_id :
              i # j => index_to_node_id[i] # index_to_node_id[j]
        /\ \A i \in DOMAIN index_to_node_id :
              (i \in DOMAIN index.vectors /\ index_to_node_id[i] \in Keys(nodes)) =>
                  index.vectors[i] = Node(nodes, index_to_node_id[i]).embedding.data

----------------------------------------------------------------------------
(* SpecBlob: saves and loads of a store whose index file can go missing      *)
(* between a save and a load.                                                *)

\* os.remove(path)
DeleteFile(fs, path) == [q \in DOMAIN fs \ {path} |-> fs[q]]

\* The file faiss.write_index wrote (line 373) is deleted by the environment.
BlobLost(paths) ==
    \E filepath \in paths :
        /\ FaissPath(filepath) \in DOMAIN files
        /\ files' = DeleteFile(files, FaissPath(filepath))
        /\ UNCHANGED <<nodes, graph_nodes, graph_edges, index, index_to_node_id,
                       embedding_dim, memory_capacity, decay_rate, clock, ret, threads, orch, jobs>>

InitBlob == Constructed(1, 100000, DefaultDecay)

InsertBlob == AddMemory({Input(Vec(0), "text", 0, 5)},
                        {<<>>}, MaxNodes, {1})

LoseBlob == BlobLost(Paths)

NextBlob == InsertBlob \/ SaveIt \/ LoadIt \/ LoseBlob

SpecBlob == InitBlob /\ [][NextBlob]_vars

\* C36: a load step that raised has left the node table, the graph, the
\* mapping, the index and the configuration as they were before the call.
C36_FailedLoadChangesNothing ==
    [][(ret'.op = "load" /\ ret'.status # "ok") =>
          UNCHANGED <<nodes, graph_nodes, graph_edges, index, index_to_node_id,
                      embedding_dim, memory_capacity, decay_rate>>]_vars

----------------------------------------------------------------------------
(* SpecBrim: a store of capacity 2 or 9 that eight add_memory calls have     *)
(* filled, then add_memory calls with every kind of argument and parent,     *)
(* and retrieve calls that ask for more nodes than the store holds.          *)

MaxBrim == 11

\* The arguments of the n-th call that fills the store: importance rises
\* from 0.1.
Rising(n) == Input(Vec(n % 4), "text", 0, Min(n + 1, 10))

\* The instance after n add_memory calls made one after the other within
\* one value of datetime.now() on an instance of the given capacity.
RECURSIVE Stocked(_, _)
Stocked(n, capacity) ==
    IF n = 0 THEN Fresh(1, capacity, NoDecay)
    ELSE LET in == Rising(n - 1)
         IN  AddMemoryCall(Stocked(n - 1, capacity), 0, in.embedding, in.modality,
                           in.emotional_valence, in.importance, <<>>).self

InitBrim ==
    \E capacity \in {2, 9} :
        /\ nodes = Stocked(8, capacity).nodes
        /\ graph_nodes = Stocked(8, capacity).graph_nodes
        /\ graph_edges = Stocked(8, capacity).graph_edges
        /\ index = Stocked(8, capacity).index
        /\ index_to_node_id = Stocked(8, capacity).index_to_node_id
        /\ embedding_dim = 1
        /\ memory_capacity = capacity
        /\ decay_rate = NoDecay
        /\ clock = 0
        /\ ret = NoCall
        /\ files = NoFiles
        /\ threads = NoThreads
        /\ orch = NoOrch
        /\ jobs = NoJobs

\* The next of the rising inputs, an input of importance 0.0, and a
\* 2-element embedding.
BrimInputs ==
    { Rising(Len(nodes)),
      Input(Vec(1), "image", 0, 0),
      Input(NdArray(<<2>>, <<0, 0>>), "text", 0, 5) }

InsertBrim == AddMemory(BrimInputs, ParentLists(Self), MaxBrim, {0, MaxClock})

LookupAll == Retrieve({Vec(0)}, {MaxBrim + 1}, {<<NoFilter, 0>>})

NextBrim == InsertBrim \/ LookupAll

SpecBrim == InitBrim /\ [][NextBrim]_vars

\* C32: after an add_memory call has returned, the store holds at most
\* max(memory_capacity, 9) nodes.
C32_CountAtMostCapacityOrNine ==
    (ret.op = "add_memory" /\ ret.status = "ok") =>
        Len(nodes) <= Max(memory_capacity, 9)

\* C33: when the pass an add_memory call ran removed a node and the node
\* the call created had a total score strictly below that of every other
\* node of the population, the id the call returned names no node of the
\* store or the graph and no endpoint of an edge, while the last position
\* of the index and of the mapping is still the new node's.
C33_NewNodeIsEvictable ==
    [][(/\ ret'.op = "add_memory" /\ ret'.status = "ok" /\ ret'.pruned
        /\ Len(nodes') < Len(ret'.population)
        /\ \A i \in DOMAIN ret'.population :
              ret'.population[i].node_id # ret'.node_id =>
                  TotalScore(Node(ret'.population, ret'.node_id), ret'.now, decay_rate)
                    < TotalScore(ret'.population[i], ret'.now, decay_rate))
       => /\ ret'.node_id \notin Keys(nodes')
          /\ ret'.node_id \notin graph_nodes'
          /\ \A i \in DOMAIN graph_edges' :
                /\ graph_edges'[i].source_id # ret'.node_id
                /\ graph_edges'[i].target_id # ret'.node_id
          /\ index_to_node_id'[Len(index_to_node_id')] = ret'.node_id
          /\ index'.vectors[Len(index'.vectors)] = ret'.args.embedding.data]_vars

\* An add_memory call with importance 0.0 has returned the id of a node
\* that its own pass removed.
C33_Witness ==
    /\ ret.op = "add_memory" /\ ret.status = "ok" /\ ret.pruned
    /\ ret.args.importance = 0
    /\ Len(nodes) < Len(ret.population)
    /\ ret.node_id \in Keys(ret.population)
    /\ ret.node_id \notin Keys(nodes)
    /\ ret.node_id \in Range(index_to_node_id)

\* The 1-based position of the node with that id in the node table.
Position(ns, id) == CHOOSE i \in DOMAIN ns : ns[i].node_id = id

\* C34: no edge of the graph goes from a node to itself, and every edge
\* goes from a node to a node that stands after it in the node table, which
\* is in insertion order, so the graph has no directed cycle.
C34_EdgesGoForward ==
    \A i \in DOMAIN graph_edges :
        /\ graph_edges[i].source_id # graph_edges[i].target_id
        /\ (graph_edges[i].source_id \in Keys(nodes)
              /\ graph_edges[i].target_id \in Keys(nodes)) =>
                 Position(nodes, graph_edges[i].source_id)
                    < Position(nodes, graph_edges[i].target_id)

\* The ids that name no node of the store: one never created and those of
\* the nodes removed.
DeadIds == {UnknownId} \cup (Range(index_to_node_id) \ Keys(nodes))

\* C35: an add_memory call that names a parent id that is not in the store
\* ends as the call without that parent ends (it returns an id when that
\* one does); a step of add_memory creates no edge from an id that was not
\* in the store when the call was made, and leaves the node set of the
\* graph equal to the key set of the store.
C35_DeadParentIgnored ==
    [][/\ \A in \in BrimInputs, p \in DeadIds :
             AddMemoryCall(Self, clock, in.embedding, in.modality, in.emotional_valence,
                           in.importance, <<p>>).ret.status
               = AddMemoryCall(Self, clock, in.embedding, in.modality,
                               in.emotional_valence, in.importance, <<>>).ret.status
       /\ ret'.op = "add_memory" =>
             /\ \A j \in DOMAIN graph_edges' :
                   \/ graph_edges'[j].source_id \in Keys(nodes)
                   \/ \E i \in DOMAIN graph_edges : graph_edges[i] = graph_edges'[j]
             /\ graph_nodes' = Keys(nodes')]_vars

\* C31: a retrieve call without filters and without include_neighbors whose
\* top_k is at least the number of nodes in the store returns every node of
\* the store exactly once.
C31_LargeTopKReturnsAll ==
    (/\ ret.op = "retrieve"
     /\ ret.args.modality_filter = NoFilter /\ ret.args.min_importance = 0
     /\ ~ret.args.include_neighbors
     /\ ret.args.top_k >= Len(nodes)) =>
        /\ ret.status = "ok"
        /\ Len(ret.results) = Len(nodes)
        /\ {ret.results[i].node_id : i \in DOMAIN ret.results} = Keys(nodes)

(***************************************************************************)
(* OrchestratorAgent.delegate_and_execute (agents/orchestrator.py).        *)
(*                                                                         *)
(* A task id is a number: the i-th subtask has id i, and 0 is an id no     *)
(* subtask has.  An agent is the role it is registered under.  What        *)
(* agent.execute_task returns for a task is the record of the task and the *)
(* agent, [kind |-> "value", of, by]; what it raises is the record with    *)
(* kind "exception".  The coroutine runs without interruption between its  *)
(* awaits, and asyncio.gather is its only await: the coroutines of a round *)
(* run one after the other, in the order they were passed.                 *)
(***************************************************************************)
MaxTasks == 3

memory_vars == <<nodes, graph_nodes, graph_edges, index, index_to_node_id,
                 embedding_dim, memory_capacity, decay_rate, clock, ret,
                 files, threads>>

AgentRoles == {"video_generator", "audio_generator"}

UnknownTask == 0

Task(task_id, role, dependencies) ==
    [task_id |-> task_id, role |-> role, dependencies |-> dependencies]

TaskOf(subtasks, task_id) ==
    subtasks[CHOOSE i \in DOMAIN subtasks : subtasks[i].task_id = task_id]

\* Lines 302-309: the locals of the call, every subtask pending.
Delegated(subtasks, agents) ==
    [NoOrch EXCEPT
        !.pc = "while",
        !.subtasks = subtasks,
        !.agents = agents,
        !.pending = [i \in DOMAIN subtasks |-> subtasks[i].task_id],
        !.status = [id \in {subtasks[i].task_id : i \in DOMAIN subtasks}
                        |-> "pending"]]

\* Lines 313-316: the pending tasks whose dependencies are all completed,
\* in the order of the pending dict.
ReadyTasks(o) ==
    SelectSeq(o.pending,
              LAMBDA id : \A dep \in Range(TaskOf(o.subtasks, id).dependencies) :
                              dep \in o.completed)

\* Lines 323-329: one coroutine for each ready task whose role has an agent.
ExecuteCoroutines(o) ==
    SelectSeq(o.ready_tasks,
              LAMBDA id : TaskOf(o.subtasks, id).role \in o.agents)

ExecuteResult(o, id, outcome) ==
    [kind |-> outcome, of |-> id, by |-> TaskOf(o.subtasks, id).role]

IsException(result) == result.kind = "exception"

\* zip(ready_tasks, task_results): the positions that have both.
Zipped(o) == 1 .. Min(Len(o.ready_tasks), Len(o.task_results))

\* Line 311 (the while test and the return of line 348), lines 313-316 and
\* the break of lines 318-320.
WhilePending ==
    /\ orch.pc = "while"
    /\ orch' = IF orch.pending = <<>>
                 THEN [orch EXCEPT !.pc = "returned"]
                 ELSE IF ReadyTasks(orch) = <<>>
                        THEN [orch EXCEPT !.pc = "returned",
                                          !.ready_tasks = <<>>]
                        ELSE [orch EXCEPT !.pc = "dispatch",
                                          !.ready_tasks = ReadyTasks(orch)]
    /\ UNCHANGED <<memory_vars, jobs>>

\* Lines 323-331: the coroutines are built; with none of them the loop goes
\* back to its test.
Dispatch ==
    /\ orch.pc = "dispatch"
    /\ orch' = [orch EXCEPT
                  !.execute_coroutines = ExecuteCoroutines(orch),
                  !.task_results = <<>>,
                  !.pc = IF ExecuteCoroutines(orch) = <<>>
                           THEN "while" ELSE "gather"]
    /\ UNCHANGED <<memory_vars, jobs>>

\* Line 332 and _execute_with_agent (lines 350-361): the next coroutine of
\* the gather runs; the agent returns or raises, and gather keeps either
\* as the coroutine's result.
ExecuteWithAgent ==
    /\ orch.pc = "gather"
    /\ Len(orch.task_results) < Len(orch.execute_coroutines)
    /\ \E outcome \in {"value", "exception"} :
         LET id == orch.execute_coroutines[Len(orch.task_results) + 1]
             result == ExecuteResult(orch, id, outcome)
             results == Append(orch.task_results, result)
         IN  orch' = [orch EXCEPT
                        !.status[id] = "in_progress",
                        !.task_results = results,
                        !.executed = Append(@, result),
                        !.pc = IF Len(results) = Len(orch.execute_coroutines)
                                 THEN "collect" ELSE "gather"]
    /\ UNCHANGED <<memory_vars, jobs>>

\* Lines 334-346: the loop over zip(ready_tasks, task_results).
Collect ==
    /\ orch.pc = "collect"
    /\ LET done == {orch.ready_tasks[k] : k \in Zipped(orch)}
           good == {k \in Zipped(orch) : ~IsException(orch.task_results[k])}
           ok == {orch.ready_tasks[k] : k \in good}
           at(id) == CHOOSE k \in Zipped(orch) : orch.ready_tasks[k] = id
       IN  orch' = [orch EXCEPT
                      !.status = [id \in DOMAIN orch.status |->
                                    IF id \in ok THEN "completed"
                                    ELSE IF id \in done THEN "failed"
                                    ELSE orch.status[id]],
                      !.results = [id \in DOMAIN orch.results \cup ok |->
                                     IF id \in ok
                                       THEN orch.task_results[at(id)]
                                       ELSE orch.results[id]],
                      !.completed = @ \cup ok,
                      !.pending = SelectSeq(@, LAMBDA id : id \notin done),
                      !.pc = "while"]
    /\ UNCHANGED <<memory_vars, jobs>>

\* The dependency lists of a subtask among n: none, one id (0 is the id of
\* no subtask) or two ids.
DependencyLists(n) ==
    {<<>>} \cup {<<d>> : d \in 0 .. n}
           \cup {<<d, e>> : d \in 1 .. n, e \in 2 .. n}

InitDelegate ==
    /\ MemoryConstructed(1, 9, NoDecay)
    /\ jobs = NoJobs
    /\ \E n \in 0 .. MaxTasks :
         \E roles \in [1 .. n -> AgentRoles],
            deps \in [1 .. n -> DependencyLists(n)],
            agents \in SUBSET AgentRoles :
           orch = Delegated([i \in 1 .. n |-> Task(i, roles[i], deps[i])],
                            agents)

NextDelegate == WhilePending \/ Dispatch \/ ExecuteWithAgent \/ Collect

SpecDelegate == InitDelegate /\ [][NextDelegate]_vars

\* The event loop runs the coroutine whenever it can take a step.
FairDelegate == SpecDelegate /\ WF_vars(NextDelegate)

\* C37: delegate_and_execute terminates: for every list of subtasks, every
\* dependency relation and every set of registered agents the call reaches
\* its return.
C37_DelegateTerminates == <>(orch.pc = "returned")

\* C38: a subtask is handed to an agent only after every one of its
\* dependencies was executed by an agent and returned without an
\* exception, and no subtask is executed twice: so a subtask with a failed
\* or never executed dependency is never executed.
C38_ExecutedOnceAfterDependencies ==
    \A i \in DOMAIN orch.executed :
        LET id == orch.executed[i].of
        IN  /\ \A dep \in Range(TaskOf(orch.subtasks, id).dependencies) :
                   \E j \in 1 .. i - 1 :
                       /\ orch.executed[j].of = dep
                       /\ ~IsException(orch.executed[j])
            /\ \A j \in DOMAIN orch.executed :
                   orch.executed[j].of = id => j = i

\* C39: every entry results[t] is the value that executing t itself, with
\* the agent registered for t's role, returned; a subtask is COMPLETED only
\* when its own execution returned and FAILED only when its own execution
\* raised.
C39_ResultsAreTheTasksOwn ==
    /\ \A t \in DOMAIN orch.results :
           orch.results[t] =
               ExecuteResult(orch, t, "value")
    /\ \A t \in DOMAIN orch.status :
           /\ orch.status[t] = "completed" =>
                  ExecuteResult(orch, t, "value") \in Range(orch.executed)
           /\ orch.status[t] = "failed" =>
                  ExecuteResult(orch, t, "exception") \in Range(orch.executed)

(***************************************************************************)
(* DistributedJobManager (pipelines/audio_animation.py).                   *)
(*                                                                         *)
(* The function of a job is what a call of it does: "returns" or "raises"  *)
(* (an exception other than queue.Empty).  The value the function of the   *)
(* n-th submit_job call returns is [of |-> n].  The worker thread is at    *)
(* "get" (in job_queue.get), "call" (about to call func), "store" (about   *)
(* to take the lock and write the result) or "dead" (an exception left     *)
(* _worker and ended the thread).  A get that times out raises             *)
(* queue.Empty and starts the loop again: it changes nothing.              *)
(***************************************************************************)
MaxJobs == 3

JobIds == {1, 2}

JobFuncs == {"returns", "raises"}

None == <<>>

JobResult(n) == [of |-> n]

\* Lines 62-67: the fields, and the worker thread started.
JobManager == [NoJobs EXCEPT !.worker = "get"]

\* dict.get(key): None when the key is missing.
DictGet(d, k) == IF k \in DOMAIN d THEN d[k] ELSE None

\* submit_job (lines 69-70).
SubmitJob(job_ids, funcs) ==
    /\ jobs.worker # "none"
    /\ Len(jobs.submitted) < MaxJobs
    /\ \E job_id \in job_ids, func \in funcs :
         LET job == [job_id |-> job_id, func |-> func,
                     n |-> Len(jobs.submitted) + 1]
         IN  jobs' = [jobs EXCEPT !.job_queue = Append(@, job),
                                  !.submitted = Append(@, job)]
    /\ UNCHANGED <<memory_vars, orch>>

\* get_result (lines 72-74).
GetResult(job_ids) ==
    /\ jobs.worker # "none"
    /\ \E job_id \in job_ids :
         jobs' = [jobs EXCEPT !.got = <<job_id, DictGet(jobs.results, job_id)>>]
    /\ UNCHANGED <<memory_vars, orch>>

\* Line 79: job_queue.get returns the oldest tuple of the queue.
WorkerGet ==
    /\ jobs.worker = "get"
    /\ jobs.job_queue # <<>>
    /\ jobs' = [jobs EXCEPT !.job = Head(jobs.job_queue),
                            !.job_queue = Tail(@),
                            !.worker = "call"]
    /\ UNCHANGED <<memory_vars, orch>>

\* Line 80: func is called.  An exception it raises is not queue.Empty, so
\* the except clause of line 83 does not catch it: it leaves _worker and
\* the thread ends.
WorkerCall ==
    /\ jobs.worker = "call"
    /\ jobs' = [jobs EXCEPT !.ran = Append(@, jobs.job.n),
                            !.worker = IF jobs.job.func = "returns"
                                         THEN "store" ELSE "dead"]
    /\ UNCHANGED <<memory_vars, orch>>

\* Lines 81-82: the result is written under the lock.
WorkerStore ==
    /\ jobs.worker = "store"
    /\ jobs' = [jobs EXCEPT
                  !.results = DictSet(@, jobs.job.job_id, JobResult(jobs.job.n)),
                  !.job = <<>>,
                  !.worker = "get"]
    /\ UNCHANGED <<memory_vars, orch>>

InitJobs ==
    /\ MemoryConstructed(1, 9, NoDecay)
    /\ orch = NoOrch
    /\ jobs = JobManager

SubmitAny == SubmitJob(JobIds, JobFuncs)

GetAny == GetResult(JobIds)

Worker == WorkerGet \/ WorkerCall \/ WorkerStore

NextJobs == SubmitAny \/ GetAny \/ WorkerGet \/ WorkerCall \/ WorkerStore

SpecJobs == InitJobs /\ [][NextJobs]_vars

\* The worker thread is scheduled whenever it can run.
FairJobs == SpecJobs /\ WF_vars(Worker)

\* C40: every submitted job whose function returns eventually has its
\* result in results under its job id, whatever the jobs before it did, and
\* the worker calls the functions in submission order.
C40_EveryReturningJobRecorded ==
    /\ \A n \in 1 .. MaxJobs :
           (\E k \in DOMAIN jobs.job_queue :
                /\ jobs.job_queue[k].n = n
                /\ jobs.job_queue[k].func = "returns")
               ~> (/\ Len(jobs.submitted) >= n
                   /\ DictGet(jobs.results, jobs.submitted[n].job_id)
                          = JobResult(n))
    /\ [](\A k \in DOMAIN jobs.ran : jobs.ran[k] = k)

============================================================================
